---- MODULE Spec2Model ----
(***************************************************************************)
(* A model of the AUTOSAR designer's core: the entity model and its        *)
(* document codec (src/model/elements.py), the editing handlers of the     *)
(* main window that mutate a Project (src/gui/main_window.py,              *)
(* src/gui/editors.py, src/gui/dialogs.py), the multi-file project         *)
(* manager (src/model/multifile.py), the project file reader               *)
(* (src/model/project_io.py) and the code generator                        *)
(* (src/codegen/generator.py).                                             *)
(*                                                                         *)
(* Conventions.  A Python object is a record of its dataclass fields; a    *)
(* list is a sequence; a dict kept for its insertion order (the module     *)
(* table) is a sequence of [key, value] entries.  UIDs are positive        *)
(* integers, and uuid4 is a source of UIDs never handed out before.        *)
(* Python's None is the value None below; it is falsy, every UID is truthy.*)
(* An Enum member is the string of its member name; its .value is the tag  *)
(* written to documents.  A document is a record whose fields are the keys *)
(* of the dict; a key may be absent.  yaml.dump followed by yaml.safe_load *)
(* is taken to return the document it was given.                           *)
(***************************************************************************)
EXTENDS Integers, Sequences, FiniteSets, TLC

None == -1

(***************************************************************************)
(* Enumerations: member name |-> value (the tag of the document format).   *)
(***************************************************************************)
PortDirection == [PROVIDED |-> "provided", REQUIRED |-> "required"]

InterfaceType == [SENDER_RECEIVER |-> "sender_receiver", CLIENT_SERVER |-> "client_server"]

BaseDataType ==
    [UINT8 |-> "uint8", UINT16 |-> "uint16", UINT32 |-> "uint32", UINT64 |-> "uint64",
     INT8 |-> "int8", INT16 |-> "int16", INT32 |-> "int32", INT64 |-> "int64",
     FLOAT32 |-> "float32", FLOAT64 |-> "float64", BOOLEAN |-> "boolean"]

AppDataCategory ==
    [VALUE |-> "value", ARRAY |-> "array", STRUCTURE |-> "structure", ENUM |-> "enum"]

ArgumentDirection == [IN |-> "in", OUT |-> "out", INOUT |-> "inout"]

\* Enum(value): the member whose value is the tag; ValueError when there is none.
IsTag(E, tag) == \E m \in DOMAIN E : E[m] = tag

EnumOf(E, tag) == CHOOSE m \in DOMAIN E : E[m] = tag

\* dict.get(key, default) and the fresh UID of the i-th entity decoded below
\* an entity whose own fresh UID would be `fresh`.
Get(data, key, default) == IF key \in DOMAIN data THEN data[key] ELSE default

Sub(fresh, i) == fresh * 10 + i

\* [X.from_dict(e) for e in data.get(key, [])] and [e.to_dict() for e in list]
GetList(data, key) == Get(data, key, <<>>)

(***************************************************************************)
(* The entity model: to_dict / from_dict of every dataclass.               *)
(***************************************************************************)
CompuMethod_to_dict(self) ==
    [name |-> self.name, factor |-> self.factor, offset |-> self.offset,
     unit |-> self.unit, description |-> self.description, uid |-> self.uid]

CompuMethod_from_dict(data, fresh) ==
    [name |-> data.name,
     factor |-> Get(data, "factor", 1),
     offset |-> Get(data, "offset", 0),
     unit |-> Get(data, "unit", ""),
     description |-> Get(data, "description", ""),
     uid |-> Get(data, "uid", fresh)]

ApplicationDataType_to_dict(self) ==
    [name |-> self.name,
     category |-> AppDataCategory[self.category],
     compu_method_uid |-> self.compu_method_uid,
     min_value |-> self.min_value,
     max_value |-> self.max_value,
     init_value |-> self.init_value,
     description |-> self.description,
     array_size |-> self.array_size,
     element_type_uid |-> self.element_type_uid,
     struct_members |-> [i \in 1..Len(self.struct_members) |->
         [name |-> self.struct_members[i][1], type_uid |-> self.struct_members[i][2]]],
     enum_literals |-> [i \in 1..Len(self.enum_literals) |->
         [name |-> self.enum_literals[i][1], value |-> self.enum_literals[i][2]]],
     uid |-> self.uid]

\* A faulty decoder that looks for the computation method under a key that
\* to_dict does not write; C9 tells it from from_dict.
ApplicationDataType_from_dict_wrong_key(data, fresh) ==
    LET sm == GetList(data, "struct_members")
        el == GetList(data, "enum_literals")
    IN  [name |-> data.name,
         category |-> EnumOf(AppDataCategory, Get(data, "category", "value")),
         compu_method_uid |-> Get(data, "compu_method", None),
         min_value |-> Get(data, "min_value", None),
         max_value |-> Get(data, "max_value", None),
         init_value |-> Get(data, "init_value", "0"),
         description |-> Get(data, "description", ""),
         array_size |-> Get(data, "array_size", 1),
         element_type_uid |-> Get(data, "element_type_uid", None),
         struct_members |-> [i \in 1..Len(sm) |-> <<sm[i].name, sm[i].type_uid>>],
         enum_literals |-> [i \in 1..Len(el) |-> <<el[i].name, el[i].value>>],
         uid |-> Get(data, "uid", fresh)]

ApplicationDataType_from_dict(data, fresh) ==
    LET sm == GetList(data, "struct_members")
        el == GetList(data, "enum_literals")
    IN  [name |-> data.name,
         category |-> EnumOf(AppDataCategory, Get(data, "category", "value")),
         compu_method_uid |-> Get(data, "compu_method_uid", None),
         min_value |-> Get(data, "min_value", None),
         max_value |-> Get(data, "max_value", None),
         init_value |-> Get(data, "init_value", "0"),
         description |-> Get(data, "description", ""),
         array_size |-> Get(data, "array_size", 1),
         element_type_uid |-> Get(data, "element_type_uid", None),
         struct_members |-> [i \in 1..Len(sm) |-> <<sm[i].name, sm[i].type_uid>>],
         enum_literals |-> [i \in 1..Len(el) |-> <<el[i].name, el[i].value>>],
         uid |-> Get(data, "uid", fresh)]

ImplementationDataType_to_dict(self) ==
    [name |-> self.name,
     base_type |-> BaseDataType[self.base_type],
     is_array |-> self.is_array,
     array_size |-> self.array_size,
     is_struct |-> self.is_struct,
     struct_members |-> [i \in 1..Len(self.struct_members) |->
         [name |-> self.struct_members[i][1], type |-> self.struct_members[i][2]]],
     description |-> self.description,
     uid |-> self.uid]

ImplementationDataType_from_dict(data, fresh) ==
    LET sm == GetList(data, "struct_members")
    IN  [name |-> data.name,
         base_type |-> EnumOf(BaseDataType, Get(data, "base_type", "uint8")),
         is_array |-> Get(data, "is_array", FALSE),
         array_size |-> Get(data, "array_size", 1),
         is_struct |-> Get(data, "is_struct", FALSE),
         struct_members |-> [i \in 1..Len(sm) |-> <<sm[i].name, sm[i].type>>],
         description |-> Get(data, "description", ""),
         uid |-> Get(data, "uid", fresh)]

DataTypeMapping_to_dict(self) ==
    [app_type_uid |-> self.app_type_uid, impl_type_uid |-> self.impl_type_uid,
     uid |-> self.uid]

DataTypeMapping_from_dict(data, fresh) ==
    [app_type_uid |-> data.app_type_uid,
     impl_type_uid |-> data.impl_type_uid,
     uid |-> Get(data, "uid", fresh)]

DataElement_to_dict(self) ==
    [name |-> self.name,
     app_type_uid |-> self.app_type_uid,
     base_type |-> BaseDataType[self.base_type],
     init_value |-> self.init_value,
     description |-> self.description,
     uid |-> self.uid]

DataElement_from_dict(data, fresh) ==
    [name |-> data.name,
     app_type_uid |-> Get(data, "app_type_uid", None),
     base_type |-> EnumOf(BaseDataType, Get(data, "base_type", "uint8")),
     init_value |-> Get(data, "init_value", "0"),
     description |-> Get(data, "description", ""),
     uid |-> Get(data, "uid", fresh)]

OperationArgument_to_dict(self) ==
    [name |-> self.name,
     direction |-> ArgumentDirection[self.direction],
     app_type_uid |-> self.app_type_uid,
     base_type |-> BaseDataType[self.base_type],
     description |-> self.description,
     uid |-> self.uid]

OperationArgument_from_dict(data, fresh) ==
    [name |-> data.name,
     direction |-> EnumOf(ArgumentDirection, Get(data, "direction", "in")),
     app_type_uid |-> Get(data, "app_type_uid", None),
     base_type |-> EnumOf(BaseDataType, Get(data, "base_type", "uint8")),
     description |-> Get(data, "description", ""),
     uid |-> Get(data, "uid", fresh)]

Operation_to_dict(self) ==
    [name |-> self.name,
     return_type_uid |-> self.return_type_uid,
     return_base_type |-> BaseDataType[self.return_base_type],
     arguments |-> [i \in 1..Len(self.arguments) |->
                       OperationArgument_to_dict(self.arguments[i])],
     description |-> self.description,
     uid |-> self.uid]

Operation_from_dict(data, fresh) ==
    LET args == GetList(data, "arguments")
    IN  [name |-> data.name,
         return_type_uid |-> Get(data, "return_type_uid", None),
         return_base_type |-> EnumOf(BaseDataType, Get(data, "return_base_type", "uint8")),
         arguments |-> [i \in 1..Len(args) |->
                           OperationArgument_from_dict(args[i], Sub(fresh, i))],
         description |-> Get(data, "description", ""),
         uid |-> Get(data, "uid", fresh)]

Interface_to_dict(self) ==
    [name |-> self.name,
     interface_type |-> InterfaceType[self.interface_type],
     data_elements |-> [i \in 1..Len(self.data_elements) |->
                           DataElement_to_dict(self.data_elements[i])],
     operations |-> [i \in 1..Len(self.operations) |->
                        Operation_to_dict(self.operations[i])],
     description |-> self.description,
     uid |-> self.uid]

Interface_from_dict(data, fresh) ==
    LET des == GetList(data, "data_elements")
        ops == GetList(data, "operations")
    IN  [name |-> data.name,
         interface_type |-> EnumOf(InterfaceType, Get(data, "interface_type", "sender_receiver")),
         data_elements |-> [i \in 1..Len(des) |-> DataElement_from_dict(des[i], Sub(fresh, i))],
         operations |-> [i \in 1..Len(ops) |->
                            Operation_from_dict(ops[i], Sub(fresh, Len(des) + i))],
         description |-> Get(data, "description", ""),
         uid |-> Get(data, "uid", fresh)]

Port_to_dict(self) ==
    [name |-> self.name,
     direction |-> PortDirection[self.direction],
     interface_uid |-> self.interface_uid,
     description |-> self.description,
     uid |-> self.uid]

Port_from_dict(data, fresh) ==
    [name |-> data.name,
     direction |-> EnumOf(PortDirection, Get(data, "direction", "required")),
     interface_uid |-> Get(data, "interface_uid", None),
     description |-> Get(data, "description", ""),
     uid |-> Get(data, "uid", fresh)]

Runnable_to_dict(self) ==
    [name |-> self.name, period_ms |-> self.period_ms,
     description |-> self.description, uid |-> self.uid]

Runnable_from_dict(data, fresh) ==
    [name |-> data.name,
     period_ms |-> Get(data, "period_ms", 10),
     description |-> Get(data, "description", ""),
     uid |-> Get(data, "uid", fresh)]

SoftwareComponent_to_dict(self) ==
    [name |-> self.name,
     ports |-> [i \in 1..Len(self.ports) |-> Port_to_dict(self.ports[i])],
     runnables |-> [i \in 1..Len(self.runnables) |-> Runnable_to_dict(self.runnables[i])],
     description |-> self.description,
     uid |-> self.uid]

SoftwareComponent_from_dict(data, fresh) ==
    LET ps == GetList(data, "ports")
        rs == GetList(data, "runnables")
    IN  [name |-> data.name,
         ports |-> [i \in 1..Len(ps) |-> Port_from_dict(ps[i], Sub(fresh, i))],
         runnables |-> [i \in 1..Len(rs) |-> Runnable_from_dict(rs[i], Sub(fresh, Len(ps) + i))],
         description |-> Get(data, "description", ""),
         uid |-> Get(data, "uid", fresh)]

PortConnection_to_dict(self) ==
    [name |-> self.name,
     provider_swc_uid |-> self.provider_swc_uid,
     provider_port_uid |-> self.provider_port_uid,
     requester_swc_uid |-> self.requester_swc_uid,
     requester_port_uid |-> self.requester_port_uid,
     description |-> self.description,
     uid |-> self.uid]

PortConnection_from_dict(data, fresh) ==
    [name |-> data.name,
     provider_swc_uid |-> data.provider_swc_uid,
     provider_port_uid |-> data.provider_port_uid,
     requester_swc_uid |-> data.requester_swc_uid,
     requester_port_uid |-> data.requester_port_uid,
     description |-> Get(data, "description", ""),
     uid |-> Get(data, "uid", fresh)]

\* The seven entity lists shared by Project and Module documents.
EntityLists_to_dict(self) ==
    [compu_methods |-> [i \in 1..Len(self.compu_methods) |->
         CompuMethod_to_dict(self.compu_methods[i])],
     application_data_types |-> [i \in 1..Len(self.application_data_types) |->
         ApplicationDataType_to_dict(self.application_data_types[i])],
     implementation_data_types |-> [i \in 1..Len(self.implementation_data_types) |->
         ImplementationDataType_to_dict(self.implementation_data_types[i])],
     data_type_mappings |-> [i \in 1..Len(self.data_type_mappings) |->
         DataTypeMapping_to_dict(self.data_type_mappings[i])],
     interfaces |-> [i \in 1..Len(self.interfaces) |-> Interface_to_dict(self.interfaces[i])],
     components |-> [i \in 1..Len(self.components) |->
         SoftwareComponent_to_dict(self.components[i])],
     connections |-> [i \in 1..Len(self.connections) |->
         PortConnection_to_dict(self.connections[i])]]

EntityLists_from_dict(data, fresh) ==
    LET cms == GetList(data, "compu_methods")
        adts == GetList(data, "application_data_types")
        idts == GetList(data, "implementation_data_types")
        dtms == GetList(data, "data_type_mappings")
        ifs == GetList(data, "interfaces")
        cs == GetList(data, "components")
        conns == GetList(data, "connections")
    IN  [compu_methods |-> [i \in 1..Len(cms) |->
             CompuMethod_from_dict(cms[i], Sub(Sub(fresh, 1), i))],
         application_data_types |-> [i \in 1..Len(adts) |->
             ApplicationDataType_from_dict(adts[i], Sub(Sub(fresh, 2), i))],
         implementation_data_types |-> [i \in 1..Len(idts) |->
             ImplementationDataType_from_dict(idts[i], Sub(Sub(fresh, 3), i))],
         data_type_mappings |-> [i \in 1..Len(dtms) |->
             DataTypeMapping_from_dict(dtms[i], Sub(Sub(fresh, 4), i))],
         interfaces |-> [i \in 1..Len(ifs) |->
             Interface_from_dict(ifs[i], Sub(Sub(fresh, 5), i))],
         components |-> [i \in 1..Len(cs) |->
             SoftwareComponent_from_dict(cs[i], Sub(Sub(fresh, 6), i))],
         connections |-> [i \in 1..Len(conns) |->
             PortConnection_from_dict(conns[i], Sub(Sub(fresh, 7), i))]]

\* r1 @@ r2 on records: the fields of both.
Project_to_dict(self) ==
    [name |-> self.name, description |-> self.description] @@ EntityLists_to_dict(self)

Project_from_dict(data, fresh) ==
    [name |-> Get(data, "name", "Untitled Project"),
     description |-> Get(data, "description", "")] @@ EntityLists_from_dict(data, fresh)

\* Project(name=...): the constructor's defaults.
NewProject(name, description) ==
    [name |-> name, description |-> description,
     compu_methods |-> <<>>, application_data_types |-> <<>>,
     implementation_data_types |-> <<>>, data_type_mappings |-> <<>>,
     interfaces |-> <<>>, components |-> <<>>, connections |-> <<>>]

(***************************************************************************)
(* Project: lookup helpers and the connection validator.                   *)
(* An Optional[object] result is <<>> for None and <<obj>> for obj.        *)
(***************************************************************************)
\* A faulty lookup that returns the last entity with the UID; C26 tells it
\* from the loops of the get_..._by_uid methods.
LastByUid(list, uid, i) ==
    LET found == {k \in i..Len(list) : list[k].uid = uid}
    IN  IF found = {} THEN <<>>
        ELSE <<list[CHOOSE k \in found : \A j \in found : j <= k]>>

RECURSIVE FirstByUid(_, _, _)
FirstByUid(list, uid, i) ==
    IF i > Len(list) THEN <<>>
    ELSE IF list[i].uid = uid THEN <<list[i]>>
    ELSE FirstByUid(list, uid, i + 1)

get_interface_by_uid(self, uid) == FirstByUid(self.interfaces, uid, 1)

get_component_by_uid(self, uid) == FirstByUid(self.components, uid, 1)

get_port_by_uid(swc, uid) == FirstByUid(swc.ports, uid, 1)

\* A faulty loop that compares the two port UIDs with the wrong sides of a
\* connection; C28 tells it from the loop of validate_connection.
HasConnectionSwapped(connections, provider_port_uid, requester_port_uid, i) ==
    \E k \in i..Len(connections) :
        /\ connections[k].provider_port_uid = requester_port_uid
        /\ connections[k].requester_port_uid = provider_port_uid

RECURSIVE HasConnection(_, _, _, _)
HasConnection(connections, provider_port_uid, requester_port_uid, i) ==
    IF i > Len(connections) THEN FALSE
    ELSE IF connections[i].provider_port_uid = provider_port_uid
            /\ connections[i].requester_port_uid = requester_port_uid THEN TRUE
    ELSE HasConnection(connections, provider_port_uid, requester_port_uid, i + 1)

\* A faulty variant that compares the interfaces before it looks at the
\* directions; C1 tells it from validate_connection.
validate_connection_interface_first(self, provider_swc_uid, provider_port_uid, requester_swc_uid, requester_port_uid) ==
    LET provider_swc == get_component_by_uid(self, provider_swc_uid)
        requester_swc == get_component_by_uid(self, requester_swc_uid)
    IN  IF provider_swc = <<>> THEN <<FALSE, "Provider SWC not found">>
        ELSE IF requester_swc = <<>> THEN <<FALSE, "Requester SWC not found">>
        ELSE
        LET provider_port == get_port_by_uid(provider_swc[1], provider_port_uid)
            requester_port == get_port_by_uid(requester_swc[1], requester_port_uid)
        IN  IF provider_port = <<>> THEN <<FALSE, "Provider port not found">>
            ELSE IF requester_port = <<>> THEN <<FALSE, "Requester port not found">>
            ELSE IF provider_port[1].interface_uid # requester_port[1].interface_uid
                THEN <<FALSE, "Ports must share the same interface">>
            ELSE IF provider_port[1].direction # "PROVIDED"
                THEN <<FALSE, "Provider port must have 'provided' direction">>
            ELSE IF requester_port[1].direction # "REQUIRED"
                THEN <<FALSE, "Requester port must have 'required' direction">>
            ELSE IF HasConnection(self.connections, provider_port_uid, requester_port_uid, 1)
                THEN <<FALSE, "Connection already exists">>
            ELSE <<TRUE, "Valid">>

validate_connection(self, provider_swc_uid, provider_port_uid, requester_swc_uid, requester_port_uid) ==
    LET provider_swc == get_component_by_uid(self, provider_swc_uid)
        requester_swc == get_component_by_uid(self, requester_swc_uid)
    IN  IF provider_swc = <<>> THEN <<FALSE, "Provider SWC not found">>
        ELSE IF requester_swc = <<>> THEN <<FALSE, "Requester SWC not found">>
        ELSE
        LET provider_port == get_port_by_uid(provider_swc[1], provider_port_uid)
            requester_port == get_port_by_uid(requester_swc[1], requester_port_uid)
        IN  IF provider_port = <<>> THEN <<FALSE, "Provider port not found">>
            ELSE IF requester_port = <<>> THEN <<FALSE, "Requester port not found">>
            ELSE IF provider_port[1].direction # "PROVIDED"
                THEN <<FALSE, "Provider port must have 'provided' direction">>
            ELSE IF requester_port[1].direction # "REQUIRED"
                THEN <<FALSE, "Requester port must have 'required' direction">>
            ELSE IF provider_port[1].interface_uid # requester_port[1].interface_uid
                THEN <<FALSE, "Ports must share the same interface">>
            ELSE IF HasConnection(self.connections, provider_port_uid, requester_port_uid, 1)
                THEN <<FALSE, "Connection already exists">>
            ELSE <<TRUE, "Valid">>

\* list.remove(obj): drops the first element equal to obj.
RECURSIVE ListRemove(_, _)
ListRemove(list, obj) ==
    IF list = <<>> THEN <<>>
    ELSE IF Head(list) = obj THEN Tail(list)
    ELSE <<Head(list)>> \o ListRemove(Tail(list), obj)

Range(list) == {list[i] : i \in 1..Len(list)}

(***************************************************************************)
(* Bound of the editing model: how many editing handlers run on a project  *)
(* after it was created or opened.  Each handler draws at most one UID, so *)
(* the bound is also the number of UIDs uuid4 has to hand out.             *)
(***************************************************************************)
MaxEdits == 2

MaxUid == MaxEdits

\* A UID that no entity carries.
AbsentUid == MaxUid + 100

(***************************************************************************)
(* Project documents that File > Open may read.  "wired" is a consistent   *)
(* project with one connection.  "sparse" leaves optional keys out and     *)
(* holds a connection whose requester side does not resolve (the format    *)
(* may store a dangling reference).  UIDs inside one document are          *)
(* distinct.                                                               *)
(***************************************************************************)
WiredDocument ==
    [name |-> "Wired",
     interfaces |-> <<[name |-> "I", interface_type |-> "sender_receiver", uid |-> 50]>>,
     components |-> <<
        [name |-> "A", uid |-> 51, ports |-> <<
            [name |-> "Pp", direction |-> "provided", interface_uid |-> 50, uid |-> 52]>>],
        [name |-> "B", uid |-> 53, ports |-> <<
            [name |-> "Rp", direction |-> "required", interface_uid |-> 50, uid |-> 54]>>]>>,
     connections |-> <<
        [name |-> "Conn_Pp_Rp", provider_swc_uid |-> 51, provider_port_uid |-> 52,
         requester_swc_uid |-> 53, requester_port_uid |-> 54, uid |-> 55]>>]

SparseDocument ==
    [components |-> <<
        [name |-> "A", uid |-> 51, ports |-> <<
            [name |-> "Pp", direction |-> "provided", uid |-> 52],
            [name |-> "Rp", uid |-> 56]>>]>>,
     connections |-> <<
        [name |-> "Conn_Pp_Gone", provider_swc_uid |-> 51, provider_port_uid |-> 52,
         requester_swc_uid |-> 53, requester_port_uid |-> 54, uid |-> 55]>>]

ProjectDocuments == {WiredDocument, SparseDocument}

\* The UID base that a load hands to entities whose document gives none.
LoadFresh == MaxUid + 900

(***************************************************************************)
(* State.                                                                  *)
(*   project   MainWindow.project                                          *)
(*   call      the handler or method that ran last, with what it was       *)
(*             given: for a delete the object of the tree item and the     *)
(*             connection list the handler found                           *)
(*   ret       what the method returned (the empty tuple for None)         *)
(*   edits     the editing handlers run since the project was created or   *)
(*             opened                                                      *)
(*   mfp       the MultiFileProject                                        *)
(*   files     the file system under the project directory                 *)
(*   calls     the calls made on the MultiFileProject                      *)
(***************************************************************************)
VARIABLES project, call, ret, edits, mfp, files, calls

vars == <<project, call, ret, edits, mfp, files, calls>>

Init ==
    /\ project = NewProject("New Project", "")
    /\ call = [op |-> "__init__"]
    /\ ret = <<>>
    /\ edits = 0
    /\ mfp = <<>>
    /\ files = <<>>
    /\ calls = 0

(***************************************************************************)
(* uuid4.  A UID is opaque and only ever compared for equality, so a new   *)
(* UID is any UID that the project neither carries nor refers to; the      *)
(* model hands out the least such UID of the pool 1..MaxUid.               *)
(***************************************************************************)
ComponentUids(self) == {c.uid : c \in Range(self.components)}

PortUids(self) == UNION {{p.uid : p \in Range(c.ports)} : c \in Range(self.components)}

UsedUids(self) ==
    ComponentUids(self) \cup PortUids(self)
    \cup {i.uid : i \in Range(self.interfaces)}
    \cup UNION {{p.interface_uid : p \in Range(c.ports)} : c \in Range(self.components)}
    \cup UNION {{c.uid, c.provider_swc_uid, c.provider_port_uid,
                 c.requester_swc_uid, c.requester_port_uid} : c \in Range(self.connections)}

FreshUid(self) ==
    CHOOSE u \in (1..MaxUid) \ UsedUids(self) :
        \A v \in (1..MaxUid) \ UsedUids(self) : u <= v

(***************************************************************************)
(* Constructors with the dataclass defaults.                               *)
(***************************************************************************)
SoftwareComponent(name, uid) ==
    [name |-> name, ports |-> <<>>, runnables |-> <<>>, description |-> "", uid |-> uid]

Interface(name, uid) ==
    [name |-> name, interface_type |-> "SENDER_RECEIVER", data_elements |-> <<>>,
     operations |-> <<>>, description |-> "", uid |-> uid]

Port(name, uid) ==
    [name |-> name, direction |-> "REQUIRED", interface_uid |-> None,
     description |-> "", uid |-> uid]

PortConnection(name, provider_swc_uid, provider_port_uid, requester_swc_uid, requester_port_uid, uid) ==
    [name |-> name,
     provider_swc_uid |-> provider_swc_uid, provider_port_uid |-> provider_port_uid,
     requester_swc_uid |-> requester_swc_uid, requester_port_uid |-> requester_port_uid,
     description |-> "", uid |-> uid]

(***************************************************************************)
(* Handlers of the main window.                                            *)
(***************************************************************************)
\* MainWindow._new_project
NewProjectAction ==
    /\ project' = NewProject("New Project", "")
    /\ call' = [op |-> "_new_project"]
    /\ ret' = <<>>
    /\ edits' = 0
    /\ UNCHANGED <<mfp, files, calls>>

\* MainWindow._open_project with load_project
OpenProject(data) ==
    /\ project' = Project_from_dict(data, LoadFresh)
    /\ call' = [op |-> "_open_project"]
    /\ ret' = <<>>
    /\ edits' = 0
    /\ UNCHANGED <<mfp, files, calls>>

\* MainWindow._add_swc
AddSwc ==
    /\ edits < MaxEdits
    /\ LET name == "Swc_New" \o ToString(Len(project.components) + 1)
       IN  project' = [project EXCEPT
               !.components = Append(@, SoftwareComponent(name, FreshUid(project)))]
    /\ call' = [op |-> "_add_swc"]
    /\ ret' = <<>>
    /\ edits' = edits + 1
    /\ UNCHANGED <<mfp, files, calls>>

\* MainWindow._add_interface
AddInterface ==
    /\ edits < MaxEdits
    /\ LET name == "If_New" \o ToString(Len(project.interfaces) + 1)
       IN  project' = [project EXCEPT !.interfaces = Append(@, Interface(name, FreshUid(project)))]
    /\ call' = [op |-> "_add_interface"]
    /\ ret' = <<>>
    /\ edits' = edits + 1
    /\ UNCHANGED <<mfp, files, calls>>

\* MainWindow._add_port on the tree item of component c
AddPort(c) ==
    /\ edits < MaxEdits
    /\ LET name == "Port_" \o ToString(Len(project.components[c].ports) + 1)
       IN  project' = [project EXCEPT !.components[c].ports = Append(@, Port(name, FreshUid(project)))]
    /\ call' = [op |-> "_add_port"]
    /\ ret' = <<>>
    /\ edits' = edits + 1
    /\ UNCHANGED <<mfp, files, calls>>

\* PortEditor._on_dir_changed: the combo offers REQUIRED and PROVIDED
OnDirChanged(c, p, direction) ==
    /\ edits < MaxEdits
    /\ direction # project.components[c].ports[p].direction
    /\ project' = [project EXCEPT !.components[c].ports[p].direction = direction]
    /\ call' = [op |-> "_on_dir_changed"]
    /\ ret' = <<>>
    /\ edits' = edits + 1
    /\ UNCHANGED <<mfp, files, calls>>

\* PortEditor._on_iface_changed: the combo offers (None) and every interface
OnIfaceChanged(c, p, interface_uid) ==
    /\ edits < MaxEdits
    /\ interface_uid # project.components[c].ports[p].interface_uid
    /\ project' = [project EXCEPT !.components[c].ports[p].interface_uid = interface_uid]
    /\ call' = [op |-> "_on_iface_changed"]
    /\ ret' = <<>>
    /\ edits' = edits + 1
    /\ UNCHANGED <<mfp, files, calls>>

\* The combos of ConnectionDialog: what each offers for the selection so far.
ProviderSwcs(self) ==
    {c \in 1..Len(self.components) :
        \E p \in Range(self.components[c].ports) : p.direction = "PROVIDED"}

ProviderPorts(swc) ==
    {p \in Range(swc.ports) : p.direction = "PROVIDED" /\ p.interface_uid # None}

RequesterPorts(swc, provider_port) ==
    {p \in Range(swc.ports) :
        p.direction = "REQUIRED" /\ p.interface_uid = provider_port.interface_uid}

\* A faulty variant that stores the two port UIDs the wrong way round; C2
\* tells it from _add_connection.
AddConnectionSwapped ==
    /\ edits < MaxEdits
    /\ \E c \in ProviderSwcs(project) :
       \E provider_port \in ProviderPorts(project.components[c]) :
       \E r \in 1..Len(project.components) :
       \E requester_port \in RequesterPorts(project.components[r], provider_port) :
          LET provider_swc == project.components[c]
              requester_swc == project.components[r]
              name == "Conn_" \o provider_port.name \o "_" \o requester_port.name
              conn == PortConnection(name, provider_swc.uid, requester_port.uid,
                                     requester_swc.uid, provider_port.uid, FreshUid(project))
          IN  /\ validate_connection(project, provider_swc.uid, provider_port.uid,
                                     requester_swc.uid, requester_port.uid)[1]
              /\ project' = [project EXCEPT !.connections = Append(@, conn)]
    /\ call' = [op |-> "_add_connection"]
    /\ ret' = <<>>
    /\ edits' = edits + 1
    /\ UNCHANGED <<mfp, files, calls>>

\* MainWindow._add_connection: the dialog is accepted with a selection for which
\* ConnectionDialog._validate enables the Create button.
AddConnection ==
    /\ edits < MaxEdits
    /\ \E c \in ProviderSwcs(project) :
       \E provider_port \in ProviderPorts(project.components[c]) :
       \E r \in 1..Len(project.components) :
       \E requester_port \in RequesterPorts(project.components[r], provider_port) :
          LET provider_swc == project.components[c]
              requester_swc == project.components[r]
              name == "Conn_" \o provider_port.name \o "_" \o requester_port.name
              conn == PortConnection(name, provider_swc.uid, provider_port.uid,
                                     requester_swc.uid, requester_port.uid, FreshUid(project))
          IN  /\ validate_connection(project, provider_swc.uid, provider_port.uid,
                                     requester_swc.uid, requester_port.uid)[1]
              /\ project' = [project EXCEPT !.connections = Append(@, conn)]
    /\ call' = [op |-> "_add_connection"]
    /\ ret' = <<>>
    /\ edits' = edits + 1
    /\ UNCHANGED <<mfp, files, calls>>

\* A faulty variant that looks at the provider side only; C4 tells it from
\* the filter of _delete_item.
WithoutProviderPorts(connections, ports_to_remove) ==
    LET keep(c) == c.provider_port_uid \notin ports_to_remove
    IN  SelectSeq(connections, keep)

\* c.provider_port_uid not in ports_to_remove and c.requester_port_uid not in ports_to_remove
WithoutPorts(connections, ports_to_remove) ==
    LET keep(c) == c.provider_port_uid \notin ports_to_remove
                   /\ c.requester_port_uid \notin ports_to_remove
    IN  SelectSeq(connections, keep)

\* MainWindow._delete_item, item_type "swc"
DeleteSwc(c) ==
    LET obj == project.components[c]
        ports_to_remove == {p.uid : p \in Range(obj.ports)}
    IN  /\ edits < MaxEdits
        /\ project' = [project EXCEPT
               !.connections = WithoutPorts(@, ports_to_remove),
               !.components = ListRemove(@, obj)]
        /\ call' = [op |-> "_delete_item", item_type |-> "swc", obj |-> obj,
                    connections |-> project.connections]
        /\ ret' = <<>>
        /\ edits' = edits + 1
        /\ UNCHANGED <<mfp, files, calls>>

\* MainWindow._delete_item, item_type "interface"
DeleteInterface(i) ==
    LET obj == project.interfaces[i]
    IN  /\ edits < MaxEdits
        /\ project' = [project EXCEPT !.interfaces = ListRemove(@, obj)]
        /\ call' = [op |-> "_delete_item", item_type |-> "interface"]
        /\ ret' = <<>>
        /\ edits' = edits + 1
        /\ UNCHANGED <<mfp, files, calls>>

\* A faulty variant that takes the port out and leaves the connections; C5
\* tells it from _delete_item.
DeletePortOnly(c, p) ==
    LET parent_swc == project.components[c]
        obj == parent_swc.ports[p]
    IN  /\ edits < MaxEdits
        /\ project' = [project EXCEPT !.components[c].ports = ListRemove(@, obj)]
        /\ call' = [op |-> "_delete_item", item_type |-> "port", obj |-> obj,
                    parent_swc |-> parent_swc.uid, connections |-> project.connections]
        /\ ret' = <<>>
        /\ edits' = edits + 1
        /\ UNCHANGED <<mfp, files, calls>>

\* MainWindow._delete_item, item_type "port"
DeletePort(c, p) ==
    LET parent_swc == project.components[c]
        obj == parent_swc.ports[p]
    IN  /\ edits < MaxEdits
        /\ project' = [project EXCEPT
               !.connections = WithoutPorts(@, {obj.uid}),
               !.components[c].ports = ListRemove(@, obj)]
        /\ call' = [op |-> "_delete_item", item_type |-> "port", obj |-> obj,
                    parent_swc |-> parent_swc.uid, connections |-> project.connections]
        /\ ret' = <<>>
        /\ edits' = edits + 1
        /\ UNCHANGED <<mfp, files, calls>>

\* MainWindow._delete_item, item_type "connection"
DeleteConnection(k) ==
    LET obj == project.connections[k]
    IN  /\ edits < MaxEdits
        /\ project' = [project EXCEPT !.connections = ListRemove(@, obj)]
        /\ call' = [op |-> "_delete_item", item_type |-> "connection"]
        /\ ret' = <<>>
        /\ edits' = edits + 1
        /\ UNCHANGED <<mfp, files, calls>>

\* The UID four-tuples a caller may hand to validate_connection: every
\* component and port UID of the project, and a UID that resolves nowhere.
Candidates(self) ==
    (ComponentUids(self) \cup {AbsentUid}) \X (PortUids(self) \cup {AbsentUid})
    \X (ComponentUids(self) \cup {AbsentUid}) \X (PortUids(self) \cup {AbsentUid})

\* One side of a call as the callers of this repository form it: a port named
\* with the component that owns it, a component with a port UID that does
\* not resolve, or a component UID that does not resolve.
Sides(self) ==
    UNION {{<<c.uid, p.uid>> : p \in Range(c.ports)} : c \in Range(self.components)}
    \cup {<<c.uid, AbsentUid>> : c \in Range(self.components)}
    \cup {<<AbsentUid, AbsentUid>>}

\* A faulty variant that resolves the two ports and writes the provider's
\* interface to the requester it was asked about; C3 tells it from
\* validate_connection.
ValidateConnectionResolving(provider, requester) ==
    /\ ret' = validate_connection(project, provider[1], provider[2],
                                  requester[1], requester[2])
    /\ call' = [op |-> "validate_connection",
                args |-> <<provider[1], provider[2], requester[1], requester[2]>>]
    /\ project' = [project EXCEPT !.components =
          [i \in 1..Len(@) |-> [@[i] EXCEPT !.ports =
              [j \in 1..Len(@) |->
                  IF @[j].uid = requester[2] THEN [@[j] EXCEPT !.interface_uid = None]
                  ELSE @[j]]]]]
    /\ UNCHANGED <<edits, mfp, files, calls>>

\* A call of Project.validate_connection (ConnectionDialog._validate, or any
\* collaborator probing a candidate pair).
ValidateConnection(provider, requester) ==
    /\ ret' = validate_connection(project, provider[1], provider[2],
                                  requester[1], requester[2])
    /\ call' = [op |-> "validate_connection",
                args |-> <<provider[1], provider[2], requester[1], requester[2]>>]
    /\ UNCHANGED <<project, edits, mfp, files, calls>>

(***************************************************************************)
(* The connection rules, stated on their own: which of the six rules a     *)
(* four-tuple of UIDs violates in a project, and the reason of each.       *)
(***************************************************************************)
ComponentsWith(self, swc_uid) == {c \in Range(self.components) : c.uid = swc_uid}

PortsOn(self, swc_uid, port_uid) ==
    UNION {{p \in Range(c.ports) : p.uid = port_uid} : c \in ComponentsWith(self, swc_uid)}

\* The rules that the tuple args violates in the project.
Violated(self, args) ==
    LET provider == PortsOn(self, args[1], args[2])
        requester == PortsOn(self, args[3], args[4])
    IN  {rule \in 1..6 :
           ~ CASE rule = 1 -> /\ ComponentsWith(self, args[1]) # {}
                              /\ ComponentsWith(self, args[3]) # {}
               [] rule = 2 -> provider # {} /\ requester # {}
               [] rule = 3 -> \A p \in provider : p.direction = "PROVIDED"
               [] rule = 4 -> \A p \in requester : p.direction = "REQUIRED"
               [] rule = 5 -> \A p \in provider : \A q \in requester :
                                 p.interface_uid = q.interface_uid
               [] rule = 6 -> ~ \E k \in Range(self.connections) :
                                 /\ k.provider_port_uid = args[2]
                                 /\ k.requester_port_uid = args[4]}

Lowest(rules) == CHOOSE r \in rules : \A s \in rules : r <= s

RuleReason(self, args, rule) ==
    CASE rule = 1 -> IF ComponentsWith(self, args[1]) = {}
                     THEN "Provider SWC not found" ELSE "Requester SWC not found"
      [] rule = 2 -> IF PortsOn(self, args[1], args[2]) = {}
                     THEN "Provider port not found" ELSE "Requester port not found"
      [] rule = 3 -> "Provider port must have 'provided' direction"
      [] rule = 4 -> "Requester port must have 'required' direction"
      [] rule = 5 -> "Ports must share the same interface"
      [] rule = 6 -> "Connection already exists"

Verdict(self, args) ==
    LET violated == Violated(self, args)
    IN  IF violated = {} THEN <<TRUE, "Valid">>
        ELSE <<FALSE, RuleReason(self, args, Lowest(violated))>>

Validate(self, args) == validate_connection(self, args[1], args[2], args[3], args[4])

\* C1: in every project state and for every four-tuple of UIDs,
\* validate_connection succeeds exactly when none of the six rules is
\* violated, and otherwise fails with the reason of the lowest-numbered
\* violated rule.  (After a call the project is the one the call was made
\* on, so there the pair that the call returned is compared.)
C1_VerdictIsLowestViolatedRule ==
    IF call.op = "validate_connection"
    THEN ret = Verdict(project, call.args)
    ELSE \A args \in Candidates(project) : Validate(project, args) = Verdict(project, args)

\* A call on a tuple that violates two rules failed with the reason of the
\* lower one.
C1_Witness ==
    /\ call.op = "validate_connection"
    /\ {3, 5} \subseteq Violated(project, call.args)
    /\ ret = <<FALSE, "Provider port must have 'provided' direction">>

\* The tuple that a stored connection names.
TupleOf(conn) ==
    <<conn.provider_swc_uid, conn.provider_port_uid,
      conn.requester_swc_uid, conn.requester_port_uid>>

\* args names a component with a provided port and a component with a
\* required port, both ports on one interface.
Connectable(self, args) ==
    \E A \in ComponentsWith(self, args[1]) : \E B \in ComponentsWith(self, args[3]) :
    \E Pp \in Range(A.ports) : \E Rp \in Range(B.ports) :
        /\ Pp.uid = args[2] /\ Pp.direction = "PROVIDED"
        /\ Rp.uid = args[4] /\ Rp.direction = "REQUIRED"
        /\ Pp.interface_uid # None /\ Pp.interface_uid = Rp.interface_uid

Connected(self, args) ==
    \E k \in Range(self.connections) :
        k.provider_port_uid = args[2] /\ k.requester_port_uid = args[4]

\* What C2 says of one project state: a connectable pair without a
\* connection validates; the tuple of a stored connection does not, and
\* while the pair is connectable the reason is the duplicate.
DuplicateRule(self) ==
    /\ \A args \in Candidates(self) :
          Connectable(self, args) /\ ~ Connected(self, args)
              => Validate(self, args) = <<TRUE, "Valid">>
    /\ \A k \in Range(self.connections) :
          /\ ~ Validate(self, TupleOf(k))[1]
          /\ Connectable(self, TupleOf(k))
                => Validate(self, TupleOf(k)) = <<FALSE, "Connection already exists">>

\* C2: a connectable pair (provided port, required port, same interface)
\* with no connection yet validates; once _add_connection has appended the
\* connection the same tuple fails as a duplicate, and it keeps failing for
\* as long as the connection stays in the list.
C2_DuplicateAfterAppend ==
    [][/\ call'.op # "validate_connection" => DuplicateRule(project')
       /\ call'.op = "_add_connection" =>
             LET conn == project'.connections[Len(project'.connections)]
             IN  /\ project'.connections = Append(project.connections, conn)
                 /\ Connectable(project, TupleOf(conn))
                 /\ Validate(project, TupleOf(conn)) = <<TRUE, "Valid">>
                 /\ Validate(project', TupleOf(conn)) = <<FALSE, "Connection already exists">>
      ]_vars

\* A connection that the dialog appended is in the list, and a call on its
\* tuple has returned the duplicate reason.
C2_Witness ==
    /\ call.op = "validate_connection"
    /\ ret = <<FALSE, "Connection already exists">>
    /\ \E k \in Range(project.connections) : k.uid \in 1..MaxUid /\ TupleOf(k) = call.args

PortUidsOf(swc) == {p.uid : p \in Range(swc.ports)}

\* The connections of a list that name one of the port UIDs on either side.
Attached(connections, port_uids) ==
    {k \in Range(connections) :
        k.provider_port_uid \in port_uids \/ k.requester_port_uid \in port_uids}

\* C4: after a component was deleted no connection of the project names
\* the UID of a port that the component owned, on the provider or on the
\* requester side, and the component is out of the component list.
C4_DeleteSwcDropsItsConnections ==
    call.op = "_delete_item" /\ call.item_type = "swc" =>
        /\ Attached(project.connections, PortUidsOf(call.obj)) = {}
        /\ call.obj \notin Range(project.components)

\* A component was deleted that a connection reached on its requester side
\* while another component provided.
C4_Witness ==
    /\ call.op = "_delete_item" /\ call.item_type = "swc"
    /\ \E k \in Attached(call.connections, PortUidsOf(call.obj)) :
          /\ k.requester_port_uid \in PortUidsOf(call.obj)
          /\ k.provider_port_uid \notin PortUidsOf(call.obj)
    /\ project.components # <<>>

\* C5: after a port was deleted no connection of the project has its UID
\* as provider_port_uid or requester_port_uid, and the port is out of the
\* port list of its component.
C5_DeletePortDropsItsConnections ==
    call.op = "_delete_item" /\ call.item_type = "port" =>
        /\ Attached(project.connections, {call.obj.uid}) = {}
        /\ \A swc \in ComponentsWith(project, call.parent_swc) :
              call.obj \notin Range(swc.ports)
        /\ ComponentsWith(project, call.parent_swc) # {}

\* A port was deleted that a connection named.
C5_Witness ==
    /\ call.op = "_delete_item" /\ call.item_type = "port"
    /\ Attached(call.connections, {call.obj.uid}) # {}

(***************************************************************************)
(* Project.get_compatible_ports_for_connection                             *)
(***************************************************************************)
\* The loop over self.components from the c-th component on: the pairs
\* (swc, port) of the required ports on the provider port's interface.
RECURSIVE CompatibleFrom(_, _, _)
CompatibleFrom(self, provider_port, c) ==
    IF c > Len(self.components) THEN <<>>
    ELSE LET swc == self.components[c]
             compatible(port) ==
                 /\ port.direction = "REQUIRED"
                 /\ port.interface_uid = provider_port.interface_uid
                 /\ port.uid # provider_port.uid
             ports == SelectSeq(swc.ports, compatible)
         IN  [i \in 1..Len(ports) |-> <<swc, ports[i]>>]
             \o CompatibleFrom(self, provider_port, c + 1)

get_compatible_ports_for_connection(self, provider_port) ==
    IF provider_port.direction # "PROVIDED" THEN <<>>
    ELSE CompatibleFrom(self, provider_port, 1)

\* C19: a port with no interface reference cannot be connected.
\* validate_connection never returns success when the provider port or the
\* requester port has no interface reference, and such a port is never
\* reported as compatible with a provided port.
C19_NoInterfaceNoConnection ==
    /\ call.op = "validate_connection" /\ ret[1] =>
          LET provider_port == get_port_by_uid(
                  get_component_by_uid(project, call.args[1])[1], call.args[2])[1]
              requester_port == get_port_by_uid(
                  get_component_by_uid(project, call.args[3])[1], call.args[4])[1]
          IN  provider_port.interface_uid # None /\ requester_port.interface_uid # None
    /\ \A swc \in Range(project.components) : \A provider_port \in Range(swc.ports) :
       \A pair \in Range(get_compatible_ports_for_connection(project, provider_port)) :
          pair[2].interface_uid # None


\* A connection joins a port that resolves on its provider component with
\* direction provided to a port that resolves on its requester component
\* with direction required, and the two ports have the same interface_uid.
Joins(self, conn) ==
    LET provider_swc == get_component_by_uid(self, conn.provider_swc_uid)
        requester_swc == get_component_by_uid(self, conn.requester_swc_uid)
    IN  /\ provider_swc # <<>> /\ requester_swc # <<>>
        /\ LET provider_port == get_port_by_uid(provider_swc[1], conn.provider_port_uid)
               requester_port == get_port_by_uid(requester_swc[1], conn.requester_port_uid)
           IN  /\ provider_port # <<>> /\ requester_port # <<>>
               /\ provider_port[1].direction = "PROVIDED"
               /\ requester_port[1].direction = "REQUIRED"
               /\ provider_port[1].interface_uid = requester_port[1].interface_uid

ConsistentGraph(self) == \A conn \in Range(self.connections) : Joins(self, conn)

\* The handlers that add components and ports, change the direction or the
\* interface of a port, add a connection that passed validate_connection,
\* and delete.
GraphHandlers ==
    {"_add_swc", "_add_interface", "_add_port", "_on_dir_changed", "_on_iface_changed",
     "_add_connection", "_delete_item"}

\* C27: the component graph stays consistent.  From a project in which
\* every connection joins a provided port that resolves on its provider
\* component to a required port that resolves on its requester component,
\* both with the same interface, each of the handlers above leads to a
\* project of which the same is true.
C27_GraphStaysConsistent ==
    [][(ConsistentGraph(project) /\ call'.op \in GraphHandlers)
          => ConsistentGraph(project')]_vars

\* The (provider_port_uid, requester_port_uid) pairs of the connections,
\* one entry for each connection.
PortPairs(self) ==
    [k \in 1..Len(self.connections) |->
        <<self.connections[k].provider_port_uid, self.connections[k].requester_port_uid>>]

DictHas(d, key) == \E i \in 1..Len(d) : d[i].key = key

DictGet(d, key) == d[CHOOSE i \in 1..Len(d) : d[i].key = key].value

\* d[key] = value: a key that is present keeps its place.
DictSet(d, key, value) ==
    IF DictHas(d, key)
    THEN [i \in 1..Len(d) |-> IF d[i].key = key THEN [key |-> key, value |-> value] ELSE d[i]]
    ELSE Append(d, [key |-> key, value |-> value])

DictDel(d, key) ==
    LET other(e) == e.key # key
    IN  SelectSeq(d, other)

DictKeys(d) == [i \in 1..Len(d) |-> d[i].key]

DictValues(d) == [i \in 1..Len(d) |-> d[i].value]

\* Python truthiness of a str or None argument ("" stands for both).
Truthy(name) == name # ""

ModuleReference_to_dict(self) ==
    [path |-> self.path, name |-> self.name, description |-> self.description,
     enabled |-> self.enabled]

\* Path(p).stem of the relative paths in use.
Stem(path) ==
    CASE path \in {"a.yaml", "./a.yaml"} -> "a"
      [] path = "b.yaml" -> "b"
      [] path = "c.yaml" -> "c"
      [] path = "bad.yaml" -> "bad"

ModuleReference_from_dict(data) ==
    [path |-> data.path,
     name |-> Get(data, "name", Stem(data.path)),
     description |-> Get(data, "description", ""),
     enabled |-> Get(data, "enabled", TRUE)]

MasterProject_to_dict(self) ==
    [name |-> self.name, description |-> self.description,
     modules |-> [i \in 1..Len(self.modules) |-> ModuleReference_to_dict(self.modules[i])],
     global_connections |-> [i \in 1..Len(self.global_connections) |->
         PortConnection_to_dict(self.global_connections[i])]]

MasterProject_from_dict(data, fresh) ==
    LET refs == GetList(data, "modules")
        conns == GetList(data, "global_connections")
    IN  [name |-> Get(data, "name", "Multi-Module Project"),
         description |-> Get(data, "description", ""),
         modules |-> [i \in 1..Len(refs) |-> ModuleReference_from_dict(refs[i])],
         global_connections |-> [i \in 1..Len(conns) |->
             PortConnection_from_dict(conns[i], Sub(Sub(fresh, 8), i))]]

\* MasterProject(): the constructor's defaults.
MasterProject ==
    [name |-> "Multi-Module Project", description |-> "", modules |-> <<>>,
     global_connections |-> <<>>]

Module_to_dict(self) ==
    [name |-> self.name, description |-> self.description] @@ EntityLists_to_dict(self)

Module_from_dict(data, fresh) ==
    [name |-> Get(data, "name", "Untitled Module"),
     description |-> Get(data, "description", "")] @@ EntityLists_from_dict(data, fresh)

\* Module(name=...): the constructor's defaults.
Module(name) ==
    [name |-> name, description |-> "",
     compu_methods |-> <<>>, application_data_types |-> <<>>,
     implementation_data_types |-> <<>>, data_type_mappings |-> <<>>,
     interfaces |-> <<>>, components |-> <<>>, connections |-> <<>>]

\* MultiFileProject(): the state after __init__.
MultiFileProject ==
    [master |-> MasterProject, master_path |-> <<>>, modules |-> <<>>,
     module_paths |-> <<>>, _merged |-> <<>>]

(***************************************************************************)
(* Paths.  The project directory is /proj; resolve() takes "./" out.       *)
(***************************************************************************)
ProjectDir == "/proj"

Resolve(base_dir, path) ==
    CASE path \in {"a.yaml", "./a.yaml"} -> base_dir \o "/a.yaml"
      [] path = "b.yaml" -> base_dir \o "/b.yaml"
      [] path = "c.yaml" -> base_dir \o "/c.yaml"
      [] path = "bad.yaml" -> base_dir \o "/bad.yaml"

Exists(fs, path) == path \in DOMAIN fs /\ fs[path].kind # "missing"

\* open() and yaml.safe_load followed by a from_dict succeed.
Decodes(fs, path) == Exists(fs, path) /\ fs[path].kind = "document"

(***************************************************************************)
(* The files of the project directory when the manager starts.  Module a   *)
(* declares interface I and component A, module b declares component B,    *)
(* and the master joins a port of A to a port of B by a global connection. *)
(* alt.yaml names a file that is not there, a disabled module and a module *)
(* without a display name; broken.yaml names a file that does not decode.  *)
(***************************************************************************)
ModuleADocument ==
    [name |-> "a",
     interfaces |-> <<[name |-> "I", interface_type |-> "sender_receiver", uid |-> 50]>>,
     components |-> <<
        [name |-> "A", uid |-> 51, ports |-> <<
            [name |-> "Pp", direction |-> "provided", interface_uid |-> 50, uid |-> 52]>>]>>]

ModuleBDocument ==
    [name |-> "b",
     components |-> <<
        [name |-> "B", uid |-> 53, ports |-> <<
            [name |-> "Rp", direction |-> "required", interface_uid |-> 50, uid |-> 54]>>]>>]

GlobalConnectionDocument ==
    [name |-> "Conn_Pp_Rp", provider_swc_uid |-> 51, provider_port_uid |-> 52,
     requester_swc_uid |-> 53, requester_port_uid |-> 54, uid |-> 55]

MasterDocument ==
    [name |-> "Master",
     modules |-> <<[path |-> "a.yaml", name |-> "ModA"], [path |-> "b.yaml", name |-> "ModB"]>>,
     global_connections |-> <<GlobalConnectionDocument>>]

AltDocument ==
    [name |-> "Alt",
     modules |-> <<[path |-> "c.yaml", name |-> "ModC"],
                   [path |-> "a.yaml", name |-> "ModA", enabled |-> FALSE],
                   [path |-> "b.yaml"]>>,
     global_connections |-> <<GlobalConnectionDocument>>]

BrokenDocument ==
    [name |-> "Broken",
     modules |-> <<[path |-> "bad.yaml", name |-> "ModBad"],
                   [path |-> "b.yaml", name |-> "ModB"]>>]

Document(data) == [kind |-> "document", data |-> data]

InitialFiles ==
    [p \in {"/proj/master.yaml", "/proj/alt.yaml", "/proj/broken.yaml",
            "/proj/a.yaml", "/proj/b.yaml", "/proj/c.yaml", "/proj/bad.yaml"} |->
        CASE p = "/proj/master.yaml" -> Document(MasterDocument)
          [] p = "/proj/alt.yaml" -> Document(AltDocument)
          [] p = "/proj/broken.yaml" -> Document(BrokenDocument)
          [] p = "/proj/a.yaml" -> Document(ModuleADocument)
          [] p = "/proj/b.yaml" -> Document(ModuleBDocument)
          [] p = "/proj/c.yaml" -> [kind |-> "missing"]
          [] p = "/proj/bad.yaml" -> [kind |-> "malformed"]]

MasterPaths == {"/proj/master.yaml", "/proj/alt.yaml", "/proj/broken.yaml"}

ModulePaths == {"/proj/a.yaml", "/proj/b.yaml", "/proj/c.yaml", "/proj/bad.yaml"}

\* The module that a caller hands to add_module, and a component that a
\* caller appends to a loaded module.
ModuleC ==
    [Module("ModC") EXCEPT !.components =
        <<[SoftwareComponent("C", 57) EXCEPT !.ports = <<Port("Rq", 58)>>]>>]

ComponentX == SoftwareComponent("X", 60)

InitMF ==
    /\ mfp = MultiFileProject
    /\ files = InitialFiles
    /\ calls = 0
    /\ call = [op |-> "__init__"]
    /\ ret = <<>>
    /\ project = NewProject("New Project", "")
    /\ edits = 0

(***************************************************************************)
(* Methods of MultiFileProject, as functions of the object and the file    *)
(* system.  A result carries the object as the method leaves it and        *)
(* whether the method raised.                                              *)
(***************************************************************************)
\* MultiFileProject.load_module
load_module(self, fs, module_path, name) ==
    IF ~ Decodes(fs, module_path) THEN [self |-> self, raised |-> TRUE]
    ELSE
    LET decoded == Module_from_dict(fs[module_path].data, LoadFresh)
        module == IF Truthy(name) THEN [decoded EXCEPT !.name = name] ELSE decoded
    IN  [self |-> [self EXCEPT !.modules = DictSet(@, module_path, module),
                               !.module_paths = DictSet(@, module.name, module_path),
                               !._merged = <<>>],
         raised |-> FALSE]

\* A faulty variant of the loop that does not look at the enabled flag; C10
\* tells it from the loop of load_master.
RECURSIVE LoadReferencesAll(_, _, _, _, _, _)
LoadReferencesAll(self, fs, base_dir, i, reads, warnings) ==
    IF i > Len(self.master.modules)
    THEN [self |-> [self EXCEPT !._merged = <<>>], raised |-> FALSE,
          reads |-> reads, warnings |-> warnings]
    ELSE
    LET mod_ref == self.master.modules[i]
        mod_path == Resolve(base_dir, mod_ref.path)
    IN  IF Exists(fs, mod_path)
        THEN LET loaded == load_module(self, fs, mod_path, mod_ref.name)
             IN  IF loaded.raised
                 THEN [self |-> loaded.self, raised |-> TRUE,
                       reads |-> Append(reads, mod_path), warnings |-> warnings]
                 ELSE LoadReferencesAll(loaded.self, fs, base_dir, i + 1,
                                        Append(reads, mod_path), warnings)
        ELSE LoadReferencesAll(self, fs, base_dir, i + 1, reads, Append(warnings, mod_path))

\* The loop of load_master over self.master.modules from the i-th reference
\* on; reads lists the files opened and warnings the paths reported missing.
RECURSIVE LoadReferences(_, _, _, _, _, _)
LoadReferences(self, fs, base_dir, i, reads, warnings) ==
    IF i > Len(self.master.modules)
    THEN [self |-> [self EXCEPT !._merged = <<>>], raised |-> FALSE,
          reads |-> reads, warnings |-> warnings]
    ELSE
    LET mod_ref == self.master.modules[i]
        mod_path == Resolve(base_dir, mod_ref.path)
    IN  IF ~ mod_ref.enabled
        THEN LoadReferences(self, fs, base_dir, i + 1, reads, warnings)
        ELSE IF Exists(fs, mod_path)
        THEN LET loaded == load_module(self, fs, mod_path, mod_ref.name)
             IN  IF loaded.raised
                 THEN [self |-> loaded.self, raised |-> TRUE,
                       reads |-> Append(reads, mod_path), warnings |-> warnings]
                 ELSE LoadReferences(loaded.self, fs, base_dir, i + 1,
                                     Append(reads, mod_path), warnings)
        ELSE LoadReferences(self, fs, base_dir, i + 1, reads, Append(warnings, mod_path))

\* MultiFileProject.load_master
load_master(self, fs, master_path) ==
    IF ~ Decodes(fs, master_path)
    THEN [self |-> self, raised |-> TRUE,
          reads |-> IF Exists(fs, master_path) THEN <<master_path>> ELSE <<>>,
          warnings |-> <<>>]
    ELSE
    LET cleared == [self EXCEPT
            !.master = MasterProject_from_dict(fs[master_path].data, LoadFresh),
            !.master_path = <<master_path>>,
            !.modules = <<>>,
            !.module_paths = <<>>]
    IN  LoadReferences(cleared, fs, ProjectDir, 1, <<master_path>>, <<>>)

\* The loop of get_merged_project over self.modules.values().
RECURSIVE MergeModules(_, _, _)
MergeModules(merged, modules, i) ==
    IF i > Len(modules) THEN merged
    ELSE MergeModules(
            [merged EXCEPT
                !.compu_methods = @ \o modules[i].compu_methods,
                !.application_data_types = @ \o modules[i].application_data_types,
                !.implementation_data_types = @ \o modules[i].implementation_data_types,
                !.data_type_mappings = @ \o modules[i].data_type_mappings,
                !.interfaces = @ \o modules[i].interfaces,
                !.components = @ \o modules[i].components,
                !.connections = @ \o modules[i].connections],
            modules, i + 1)

\* MultiFileProject.get_merged_project: the Project returned and the object
\* with the memo it leaves.
get_merged_project(self) ==
    IF self._merged # <<>> THEN [self |-> self, merged |-> self._merged[1]]
    ELSE
    LET modules_merged == MergeModules(NewProject(self.master.name, self.master.description),
                                       DictValues(self.modules), 1)
        merged == [modules_merged EXCEPT !.connections = @ \o self.master.global_connections]
    IN  [self |-> [self EXCEPT !._merged = <<merged>>], merged |-> merged]

\* MultiFileProject.add_module: the object and the file system it leaves.
add_module(self, fs, module, relative_path) ==
    IF self.master_path = <<>> THEN [self |-> self, fs |-> fs, raised |-> TRUE]
    ELSE
    LET mod_ref == [path |-> relative_path, name |-> module.name,
                    description |-> module.description, enabled |-> TRUE]
        abs_path == Resolve(ProjectDir, relative_path)
    IN  [self |-> [self EXCEPT !.master.modules = Append(@, mod_ref),
                               !.modules = DictSet(@, abs_path, module),
                               !.module_paths = DictSet(@, module.name, abs_path),
                               !._merged = <<>>],
         fs |-> [fs EXCEPT ![abs_path] = Document(Module_to_dict(module))],
         raised |-> FALSE]

\* MultiFileProject.remove_module.  del self.modules[str(path)] raises a
\* KeyError when the table has no such key, with the references already
\* filtered.
remove_module(self, fs, module_name, delete_file) ==
    LET other(m) == m.name # module_name
        filtered == [self EXCEPT !.master.modules = SelectSeq(@, other)]
    IN  IF ~ DictHas(self.module_paths, module_name)
        THEN [self |-> [filtered EXCEPT !._merged = <<>>], fs |-> fs, raised |-> FALSE]
        ELSE
        LET path == DictGet(self.module_paths, module_name)
        IN  IF ~ DictHas(self.modules, path)
            THEN [self |-> filtered, fs |-> fs, raised |-> TRUE]
            ELSE [self |-> [filtered EXCEPT !.modules = DictDel(@, path),
                                            !.module_paths = DictDel(@, module_name),
                                            !._merged = <<>>],
                  fs |-> IF delete_file /\ Exists(fs, path)
                         THEN [fs EXCEPT ![path] = [kind |-> "missing"]] ELSE fs,
                  raised |-> FALSE]

\* MultiFileProject.invalidate_cache
invalidate_cache(self) == [self EXCEPT !._merged = <<>>]

(***************************************************************************)
(* Bound of the multi-file model: how many calls and direct mutations a    *)
(* caller makes on the manager (reads of the merged view and cache         *)
(* invalidations are not counted).                                         *)
(***************************************************************************)
MaxCalls == 3

\* The names a caller may pass to remove_module: those the manager knows
\* and one it does not.
KnownNames(self) ==
    {self.master.modules[i].name : i \in 1..Len(self.master.modules)}
    \cup {self.module_paths[i].key : i \in 1..Len(self.module_paths)}

(***************************************************************************)
(* Calls on the manager.                                                   *)
(***************************************************************************)
LoadMaster(master_path) ==
    /\ calls < MaxCalls
    /\ LET r == load_master(mfp, files, master_path)
       IN  /\ mfp' = r.self
           /\ call' = [op |-> "load_master", master_path |-> master_path,
                       raised |-> r.raised, reads |-> r.reads, warnings |-> r.warnings]
    /\ ret' = <<>>
    /\ calls' = calls + 1
    /\ UNCHANGED <<files, project, edits>>

LoadModule(module_path, name) ==
    /\ calls < MaxCalls
    /\ LET r == load_module(mfp, files, module_path, name)
       IN  /\ mfp' = r.self
           /\ call' = [op |-> "load_module", raised |-> r.raised]
    /\ ret' = <<>>
    /\ calls' = calls + 1
    /\ UNCHANGED <<files, project, edits>>

AddModule(module, relative_path) ==
    /\ calls < MaxCalls
    /\ LET r == add_module(mfp, files, module, relative_path)
       IN  /\ mfp' = r.self
           /\ files' = r.fs
           /\ call' = [op |-> "add_module", raised |-> r.raised]
    /\ ret' = <<>>
    /\ calls' = calls + 1
    /\ UNCHANGED <<project, edits>>

RemoveModule(module_name, delete_file) ==
    /\ calls < MaxCalls
    /\ LET r == remove_module(mfp, files, module_name, delete_file)
           named(e) == e.value.name = module_name
       IN  /\ mfp' = r.self
           /\ files' = r.fs
           /\ call' = [op |-> "remove_module", module_name |-> module_name,
                       raised |-> r.raised,
                       removed |-> DictValues(SelectSeq(mfp.modules, named))]
    /\ ret' = <<>>
    /\ calls' = calls + 1
    /\ UNCHANGED <<project, edits>>

GetMergedProject ==
    /\ LET r == get_merged_project(mfp)
       IN  /\ mfp' = r.self
           /\ ret' = r.merged
    /\ call' = [op |-> "get_merged_project", memo |-> mfp._merged # <<>>]
    /\ UNCHANGED <<files, calls, project, edits>>

InvalidateCache ==
    /\ mfp' = invalidate_cache(mfp)
    /\ call' = [op |-> "invalidate_cache"]
    /\ ret' = <<>>
    /\ UNCHANGED <<files, calls, project, edits>>

(***************************************************************************)
(* Direct mutations: the manager has no method to edit a module or the     *)
(* master, a caller writes to the objects it holds.                        *)
(***************************************************************************)
\* mod_ref.enabled = not mod_ref.enabled
SetEnabled(i) ==
    /\ calls < MaxCalls
    /\ mfp' = [mfp EXCEPT !.master.modules[i].enabled = ~ @]
    /\ call' = [op |-> "set_enabled", module_name |-> mfp.master.modules[i].name,
                path |-> Resolve(ProjectDir, mfp.master.modules[i].path),
                enabled |-> ~ mfp.master.modules[i].enabled]
    /\ ret' = <<>>
    /\ calls' = calls + 1
    /\ UNCHANGED <<files, project, edits>>

\* module.components.append(swc) on the k-th loaded module
AppendComponent(k) ==
    /\ calls < MaxCalls
    /\ \A j \in 1..Len(mfp.modules) : ComponentX \notin Range(mfp.modules[j].value.components)
    /\ mfp' = [mfp EXCEPT !.modules[k].value.components = Append(@, ComponentX)]
    /\ call' = [op |-> "components.append"]
    /\ ret' = <<>>
    /\ calls' = calls + 1
    /\ UNCHANGED <<files, project, edits>>

\* module.components.remove(swc) on the k-th loaded module
RemoveComponent(k, swc) ==
    /\ calls < MaxCalls
    /\ mfp' = [mfp EXCEPT !.modules[k].value.components = ListRemove(@, swc)]
    /\ call' = [op |-> "components.remove"]
    /\ ret' = <<>>
    /\ calls' = calls + 1
    /\ UNCHANGED <<files, project, edits>>

\* master.global_connections.append(conn)
AppendGlobalConnection(conn) ==
    /\ calls < MaxCalls
    /\ conn \notin Range(mfp.master.global_connections)
    /\ mfp' = [mfp EXCEPT !.master.global_connections = Append(@, conn)]
    /\ call' = [op |-> "global_connections.append"]
    /\ ret' = <<>>
    /\ calls' = calls + 1
    /\ UNCHANGED <<files, project, edits>>

\* master.global_connections.remove(conn)
RemoveGlobalConnection(conn) ==
    /\ calls < MaxCalls
    /\ mfp' = [mfp EXCEPT !.master.global_connections = ListRemove(@, conn)]
    /\ call' = [op |-> "global_connections.remove"]
    /\ ret' = <<>>
    /\ calls' = calls + 1
    /\ UNCHANGED <<files, project, edits>>

ConnectionX == PortConnection("Conn_Pp_Rq", 51, 52, 57, 58, 61)

NextMF ==
    \/ \E master_path \in MasterPaths : LoadMaster(master_path)
    \/ \E module_path \in ModulePaths : \E name \in {"", "Extra"} :
          LoadModule(module_path, name)
    \/ \E relative_path \in {"c.yaml", "a.yaml"} : AddModule(ModuleC, relative_path)
    \/ \E module_name \in KnownNames(mfp) \cup {"Nope"} : \E delete_file \in BOOLEAN :
          RemoveModule(module_name, delete_file)
    \/ GetMergedProject
    \/ InvalidateCache
    \/ \E i \in 1..Len(mfp.master.modules) : SetEnabled(i)
    \/ \E k \in 1..Len(mfp.modules) : AppendComponent(k)
    \/ \E k \in 1..Len(mfp.modules) :
       \E swc \in Range(mfp.modules[k].value.components) : RemoveComponent(k, swc)
    \/ AppendGlobalConnection(ConnectionX)
    \/ \E conn \in Range(mfp.master.global_connections) : RemoveGlobalConnection(conn)

SpecMF == InitMF /\ [][NextMF]_vars

(***************************************************************************)
(* Claims on the multi-file project.                                       *)
(***************************************************************************)
\* The merge that the manager computes when it holds no memo.
FreshMerge(self) == get_merged_project(invalidate_cache(self)).merged

\* C6: the memoized merged view is never stale.  Whatever was done to the
\* manager, its modules or its master, what get_merged_project returns is
\* the fresh merge of the modules and the master as they are.
C6_MergedViewNeverStale ==
    call.op = "get_merged_project" => ret = FreshMerge(mfp)

\* The resolved paths of the master's module list, in list order.
ReferencedPaths(self) ==
    [i \in 1..Len(self.master.modules) |-> Resolve(ProjectDir, self.master.modules[i].path)]

\* The position of the first reference to a path in the master's list; a
\* path without a reference comes after every reference.
MasterPosition(self, path) ==
    LET at == {i \in 1..Len(self.master.modules) : ReferencedPaths(self)[i] = path}
    IN  IF at = {} THEN Len(self.master.modules) + 1
        ELSE CHOOSE i \in at : \A j \in at : i <= j

\* C7: a freshly computed merge is, for each of the seven entity kinds, the
\* concatenation of the loaded modules' lists in the order of the master's
\* module list, nothing taken out, with the master's global connections
\* after all module connections.
C7_MergeInMasterListOrder ==
    call.op = "get_merged_project" /\ ~ call.memo =>
        /\ \A i, j \in 1..Len(mfp.modules) :
              i < j => MasterPosition(mfp, mfp.modules[i].key)
                          <= MasterPosition(mfp, mfp.modules[j].key)
        /\ ret = [MergeModules(NewProject(mfp.master.name, mfp.master.description),
                               DictValues(mfp.modules), 1)
                     EXCEPT !.connections = @ \o mfp.master.global_connections]

\* What C8 asks of a merged Project once a module is out: none of the
\* module's components, and no connection that names one of them or one of
\* their ports.
Without(merged, module) ==
    \A B \in Range(module.components) :
        /\ B \notin Range(merged.components)
        /\ \A k \in Range(merged.connections) :
              /\ k.provider_swc_uid # B.uid /\ k.requester_swc_uid # B.uid
              /\ k.provider_port_uid \notin PortUidsOf(B)
              /\ k.requester_port_uid \notin PortUidsOf(B)

\* C8: after a module was removed from the master, or disabled in it, the
\* re-merged Project holds neither the module's components nor a
\* connection that references them or their ports.
C8_RemovedModuleLeavesMerge ==
    [][/\ (call.op = "remove_module" /\ ~ call.raised /\ call'.op = "get_merged_project")
            => \A module \in Range(call.removed) : Without(ret', module)
       /\ (call.op = "set_enabled" /\ ~ call.enabled /\ call'.op = "get_merged_project"
            /\ DictHas(mfp.modules, call.path))
            => Without(ret', DictGet(mfp.modules, call.path))
      ]_vars

\* The references that load_master has to load: enabled, file there.
Due(self, fs) ==
    LET due(mod_ref) == mod_ref.enabled /\ Exists(fs, Resolve(ProjectDir, mod_ref.path))
    IN  SelectSeq(self.master.modules, due)

\* The enabled references whose file is missing.
Missing(self, fs) ==
    LET missing(mod_ref) == mod_ref.enabled /\ ~ Exists(fs, Resolve(ProjectDir, mod_ref.path))
    IN  SelectSeq(self.master.modules, missing)

PathsOf(refs) == [i \in 1..Len(refs) |-> Resolve(ProjectDir, refs[i].path)]

\* C10: load_master, on a master whose module files decode, loads exactly
\* the references that are enabled and whose file exists, in master-list
\* order.  It opens the master and these files and no other (a disabled
\* reference is not read), it reports a missing file and goes on, and it
\* returns with the missing module absent from the module table and from
\* the merged view.
C10_LoadsEnabledExisting ==
    (/\ call.op = "load_master"
     /\ Decodes(files, call.master_path)
     /\ \A mod_ref \in Range(MasterProject_from_dict(files[call.master_path].data, LoadFresh).modules) :
           mod_ref.enabled /\ Exists(files, Resolve(ProjectDir, mod_ref.path))
              => Decodes(files, Resolve(ProjectDir, mod_ref.path)))
    => /\ ~ call.raised
       /\ mfp.master = MasterProject_from_dict(files[call.master_path].data, LoadFresh)
       /\ call.reads = <<call.master_path>> \o PathsOf(Due(mfp, files))
       /\ call.warnings = PathsOf(Missing(mfp, files))
       /\ DictKeys(mfp.modules) = PathsOf(Due(mfp, files))
       /\ \A i \in 1..Len(mfp.modules) :
             mfp.modules[i].value.components =
                 Module_from_dict(files[mfp.modules[i].key].data, LoadFresh).components
       /\ FreshMerge(mfp).components =
             MergeModules(NewProject("", ""),
                 [i \in 1..Len(Due(mfp, files)) |->
                     Module_from_dict(files[PathsOf(Due(mfp, files))[i]].data, LoadFresh)],
                 1).components

\* A master was loaded that names a missing file, a disabled module and a
\* module that is there: the load returned with the one module.
C10_Witness ==
    /\ call.op = "load_master" /\ ~ call.raised
    /\ call.warnings # <<>>
    /\ \E mod_ref \in Range(mfp.master.modules) : ~ mod_ref.enabled
    /\ Len(mfp.modules) = 1

\* The references of a master whose file is there and decodes, the enabled
\* ones: what a load that fails only the malformed modules ends up with.
Loadable(master, fs) ==
    LET loadable(mod_ref) == mod_ref.enabled /\ Decodes(fs, Resolve(ProjectDir, mod_ref.path))
    IN  SelectSeq(master.modules, loadable)

\* C11: when an enabled module file of a master is malformed, only that
\* module's load fails.  After load_master every other enabled, existing
\* module of the master is loaded, and get_merged_project returns the merge
\* of the modules that did load.
C11_MalformedModuleOnlyFailsItself ==
    (call.op = "load_master" /\ Decodes(files, call.master_path)) =>
        LET master == MasterProject_from_dict(files[call.master_path].data, LoadFresh)
            loaded == PathsOf(Loadable(master, files))
        IN  /\ DictKeys(mfp.modules) = loaded
            /\ get_merged_project(mfp).merged.components =
                  MergeModules(NewProject("", ""),
                      [i \in 1..Len(loaded) |-> Module_from_dict(files[loaded[i]].data, LoadFresh)],
                      1).components


\* C29: the two indexes of a MultiFileProject stay in one-to-one
\* correspondence.  After any sequence of load_master, load_module,
\* add_module and remove_module, modules that share a name included, every
\* entry of the path-keyed module table has exactly one name of the
\* name-to-path table pointing at it, every name points at exactly one
\* entry of the module table, and remove_module(name) leaves no module of
\* that name among the loaded modules.
C29_IndexesOneToOne ==
    /\ \A i \in 1..Len(mfp.modules) :
          Cardinality({j \in 1..Len(mfp.module_paths) :
                          mfp.module_paths[j].value = mfp.modules[i].key}) = 1
    /\ \A j \in 1..Len(mfp.module_paths) :
          Cardinality({i \in 1..Len(mfp.modules) :
                          mfp.modules[i].key = mfp.module_paths[j].value}) = 1
    /\ call.op = "remove_module" /\ ~ call.raised =>
          \A module \in Range(DictValues(mfp.modules)) : module.name # call.module_name

\* C30: a load_master call that fails never leaves the manager serving
\* another project's data.  When load_master raised, the get_merged_project
\* that follows it does not return the view memoized for the project
\* loaded before: it returns the merge of the master and the modules that
\* the manager holds then.
C30_FailedLoadServesNoStaleView ==
    [][(call.op = "load_master" /\ call.raised /\ call'.op = "get_merged_project")
          => ret' = FreshMerge(mfp)]_vars
(***************************************************************************)
(* The round trip of a Project through its document.  The Projects are     *)
(* built from two entities of each kind, every nested list of length two   *)
(* with distinct elements, optional fields set and unset.                  *)
(***************************************************************************)
MaxLen == 2

RTCompuMethods ==
    <<[name |-> "Lin", factor |-> 2, offset |-> 3, unit |-> "km/h",
       description |-> "linear", uid |-> 70],
      [name |-> "Id", factor |-> 1, offset |-> 0, unit |-> "",
       description |-> "", uid |-> 71]>>

RTApplicationDataTypes ==
    <<[name |-> "Rec", category |-> "STRUCTURE", compu_method_uid |-> None,
       min_value |-> None, max_value |-> None, init_value |-> "0",
       description |-> "", array_size |-> 1, element_type_uid |-> None,
       struct_members |-> <<<<"y", 73>>, <<"x", 72>>>>, enum_literals |-> <<>>,
       uid |-> 72],
      [name |-> "Sw", category |-> "ENUM", compu_method_uid |-> 70,
       min_value |-> 0, max_value |-> 1, init_value |-> "1",
       description |-> "switch", array_size |-> 4, element_type_uid |-> 72,
       struct_members |-> <<>>, enum_literals |-> <<<<"ON", 1>>, <<"OFF", 0>>>>,
       uid |-> 73]>>

RTImplementationDataTypes ==
    <<[name |-> "Rec_t", base_type |-> "UINT8", is_array |-> FALSE, array_size |-> 1,
       is_struct |-> TRUE, struct_members |-> <<<<"y", "uint16">>, <<"x", "75">>>>,
       description |-> "", uid |-> 74],
      [name |-> "Arr_t", base_type |-> "FLOAT32", is_array |-> TRUE, array_size |-> 8,
       is_struct |-> FALSE, struct_members |-> <<>>, description |-> "array", uid |-> 75]>>

RTDataTypeMappings ==
    <<[app_type_uid |-> 72, impl_type_uid |-> 74, uid |-> 76],
      [app_type_uid |-> 73, impl_type_uid |-> 75, uid |-> 77]>>

RTInterfaces ==
    <<[name |-> "Speed", interface_type |-> "SENDER_RECEIVER",
       data_elements |->
           <<[name |-> "v", app_type_uid |-> 73, base_type |-> "UINT16",
              init_value |-> "7", description |-> "speed", uid |-> 79],
             [name |-> "a", app_type_uid |-> None, base_type |-> "UINT8",
              init_value |-> "0", description |-> "", uid |-> 78]>>,
       operations |-> <<>>, description |-> "", uid |-> 80],
      [name |-> "Diag", interface_type |-> "CLIENT_SERVER", data_elements |-> <<>>,
       operations |->
           <<[name |-> "Read", return_type_uid |-> 72, return_base_type |-> "INT32",
              arguments |->
                  <<[name |-> "out", direction |-> "OUT", app_type_uid |-> 73,
                     base_type |-> "BOOLEAN", description |-> "result", uid |-> 82],
                    [name |-> "id", direction |-> "IN", app_type_uid |-> None,
                     base_type |-> "UINT8", description |-> "", uid |-> 81]>>,
              description |-> "read", uid |-> 84],
             [name |-> "Clear", return_type_uid |-> None, return_base_type |-> "UINT8",
              arguments |-> <<>>, description |-> "", uid |-> 83]>>,
       description |-> "diagnosis", uid |-> 85]>>

RTComponents ==
    <<[name |-> "Sensor",
       ports |-> <<[name |-> "Out", direction |-> "PROVIDED", interface_uid |-> 80,
                    description |-> "speed out", uid |-> 87],
                   [name |-> "In", direction |-> "REQUIRED", interface_uid |-> None,
                    description |-> "", uid |-> 86]>>,
       runnables |-> <<[name |-> "Slow", period_ms |-> 100, description |-> "slow", uid |-> 89],
                       [name |-> "Fast", period_ms |-> 10, description |-> "", uid |-> 88]>>,
       description |-> "sensor", uid |-> 90],
      [name |-> "Sink",
       ports |-> <<[name |-> "In", direction |-> "REQUIRED", interface_uid |-> 80,
                    description |-> "", uid |-> 91]>>,
       runnables |-> <<>>, description |-> "", uid |-> 92]>>

RTConnections ==
    <<[name |-> "Conn_Out_In", provider_swc_uid |-> 90, provider_port_uid |-> 87,
       requester_swc_uid |-> 92, requester_port_uid |-> 91,
       description |-> "speed", uid |-> 94],
      [name |-> "Loop", provider_swc_uid |-> 90, provider_port_uid |-> 87,
       requester_swc_uid |-> 90, requester_port_uid |-> 86,
       description |-> "", uid |-> 93]>>

\* The lists of at most MaxLen entities of a pool, any order, repeats too.
Orders(pool) == UNION {[1..n -> DOMAIN pool] : n \in 0..MaxLen}

Pick(pool, order) == [i \in 1..Len(order) |-> pool[order[i]]]

RTProject(types, interfaces, components) ==
    [name |-> "RT", description |-> "round trip",
     compu_methods |-> Pick(RTCompuMethods, types),
     application_data_types |-> Pick(RTApplicationDataTypes, types),
     implementation_data_types |-> Pick(RTImplementationDataTypes, types),
     data_type_mappings |-> Pick(RTDataTypeMappings, types),
     interfaces |-> Pick(RTInterfaces, interfaces),
     components |-> Pick(RTComponents, components),
     connections |-> Pick(RTConnections, components)]

InitRT ==
    /\ \E types \in Orders(RTCompuMethods) :
       \E interfaces \in Orders(RTInterfaces) :
       \E components \in Orders(RTComponents) :
          project = RTProject(types, interfaces, components)
    /\ call = [op |-> "__init__"]
    /\ ret = <<>>
    /\ edits = 0
    /\ mfp = <<>>
    /\ files = <<>>
    /\ calls = 0

\* Project.from_dict(p.to_dict())
RoundTrip ==
    /\ call.op = "__init__"
    /\ ret' = Project_from_dict(Project_to_dict(project), LoadFresh)
    /\ call' = [op |-> "from_dict"]
    /\ UNCHANGED <<project, edits, mfp, files, calls>>

NextRT == RoundTrip

SpecRT == InitRT /\ [][NextRT]_vars

\* C9: Project.from_dict(p.to_dict()) is structurally equal to p: every
\* list in its order, struct members, enum literals, data elements,
\* operations, arguments, ports, runnables and connections, and every UID.
C9_RoundTrip ==
    call.op = "from_dict" => ret = project

\* A Project with two different entities in every list, nested lists of two
\* elements among them, went through the round trip.
C9_Witness ==
    /\ call.op = "from_dict"
    /\ \A list \in {project.compu_methods, project.application_data_types,
                    project.implementation_data_types, project.data_type_mappings,
                    project.interfaces, project.components, project.connections} :
          Len(list) = 2 /\ list[1] # list[2]
    /\ \E adt \in Range(project.application_data_types) : Len(adt.struct_members) = 2
    /\ \E adt \in Range(project.application_data_types) : Len(adt.enum_literals) = 2
    /\ \E i \in Range(project.interfaces) : Len(i.data_elements) = 2
    /\ \E i \in Range(project.interfaces) :
          \E op \in Range(i.operations) : Len(op.arguments) = 2
    /\ \E swc \in Range(project.components) : Len(swc.ports) = 2 /\ Len(swc.runnables) = 2

(***************************************************************************)
(* from_dict is partial: Enum(tag) raises ValueError for a tag that no     *)
(* member has, data[key] raises KeyError for a key that is absent, and an  *)
(* exception of a nested from_dict leaves every enclosing one.  X_raises   *)
(* says when X.from_dict raises; X_from_dict is its result when it does    *)
(* not.                                                                    *)
(***************************************************************************)
\* Enum(data.get(key, default)) raises
BadTag(E, data, key, default) == ~ IsTag(E, Get(data, key, default))

\* data[key] raises for one of the keys
Lacks(data, keys) == ~ (keys \subseteq DOMAIN data)

CompuMethod_raises(data) == Lacks(data, {"name"})

ApplicationDataType_raises(data) ==
    \/ Lacks(data, {"name"})
    \/ \E m \in Range(GetList(data, "struct_members")) : Lacks(m, {"name", "type_uid"})
    \/ \E e \in Range(GetList(data, "enum_literals")) : Lacks(e, {"name", "value"})
    \/ BadTag(AppDataCategory, data, "category", "value")

ImplementationDataType_raises(data) ==
    \/ Lacks(data, {"name"})
    \/ \E m \in Range(GetList(data, "struct_members")) : Lacks(m, {"name", "type"})
    \/ BadTag(BaseDataType, data, "base_type", "uint8")

DataTypeMapping_raises(data) == Lacks(data, {"app_type_uid", "impl_type_uid"})

DataElement_raises(data) ==
    \/ Lacks(data, {"name"})
    \/ BadTag(BaseDataType, data, "base_type", "uint8")

OperationArgument_raises(data) ==
    \/ Lacks(data, {"name"})
    \/ BadTag(ArgumentDirection, data, "direction", "in")
    \/ BadTag(BaseDataType, data, "base_type", "uint8")

Operation_raises(data) ==
    \/ \E a \in Range(GetList(data, "arguments")) : OperationArgument_raises(a)
    \/ Lacks(data, {"name"})
    \/ BadTag(BaseDataType, data, "return_base_type", "uint8")

Interface_raises(data) ==
    \/ Lacks(data, {"name"})
    \/ BadTag(InterfaceType, data, "interface_type", "sender_receiver")
    \/ \E de \in Range(GetList(data, "data_elements")) : DataElement_raises(de)
    \/ \E op \in Range(GetList(data, "operations")) : Operation_raises(op)

\* A faulty decoder that reads the direction as data["direction"]: a
\* document without the key no longer decodes.  C12 tells it from from_dict.
Port_raises_without_default(data) ==
    \/ Lacks(data, {"name", "direction"})
    \/ BadTag(PortDirection, data, "direction", "required")

Port_raises(data) ==
    \/ Lacks(data, {"name"})
    \/ BadTag(PortDirection, data, "direction", "required")

Runnable_raises(data) == Lacks(data, {"name"})

SoftwareComponent_raises(data) ==
    \/ Lacks(data, {"name"})
    \/ \E p \in Range(GetList(data, "ports")) : Port_raises(p)
    \/ \E r \in Range(GetList(data, "runnables")) : Runnable_raises(r)

PortConnection_raises(data) ==
    Lacks(data, {"name", "provider_swc_uid", "provider_port_uid",
                 "requester_swc_uid", "requester_port_uid"})

Project_raises(data) ==
    \/ \E cm \in Range(GetList(data, "compu_methods")) : CompuMethod_raises(cm)
    \/ \E adt \in Range(GetList(data, "application_data_types")) :
          ApplicationDataType_raises(adt)
    \/ \E idt \in Range(GetList(data, "implementation_data_types")) :
          ImplementationDataType_raises(idt)
    \/ \E dtm \in Range(GetList(data, "data_type_mappings")) : DataTypeMapping_raises(dtm)
    \/ \E i \in Range(GetList(data, "interfaces")) : Interface_raises(i)
    \/ \E c \in Range(GetList(data, "components")) : SoftwareComponent_raises(c)
    \/ \E conn \in Range(GetList(data, "connections")) : PortConnection_raises(conn)

\* load_project: the Project of the file, <<p>>, or an exception and no
\* Project, <<>>.
load_project(fs, filepath) ==
    IF ~ Decodes(fs, filepath) \/ Project_raises(fs[filepath].data)
    THEN [raised |-> TRUE, project |-> <<>>]
    ELSE [raised |-> FALSE, project |-> <<Project_from_dict(fs[filepath].data, LoadFresh)>>]

(***************************************************************************)
(* Documents with one enum-valued field changed.  The field is that of the *)
(* last entity on its path (the last port of the last component, ...); a   *)
(* Project without such an entity has no such field.                       *)
(***************************************************************************)
EnumSites ==
    {"port.direction", "interface.interface_type", "data_element.base_type",
     "operation.return_base_type", "argument.direction", "argument.base_type",
     "application_data_type.category", "implementation_data_type.base_type"}

\* The key of the field in the entity's document (and the dataclass field).
EnumField(site) ==
    CASE site = "port.direction" -> "direction"
      [] site = "interface.interface_type" -> "interface_type"
      [] site = "data_element.base_type" -> "base_type"
      [] site = "operation.return_base_type" -> "return_base_type"
      [] site = "argument.direction" -> "direction"
      [] site = "argument.base_type" -> "base_type"
      [] site = "application_data_type.category" -> "category"
      [] site = "implementation_data_type.base_type" -> "base_type"

\* x, a Project or its document, with F applied to the entity of the site.
AtSite(x, site, F(_)) ==
    LET c == Len(x.components)
        i == Len(x.interfaces)
        a == Len(x.application_data_types)
        t == Len(x.implementation_data_types)
    IN  CASE site = "port.direction" ->
              IF c = 0 \/ Len(x.components[c].ports) = 0 THEN x
              ELSE [x EXCEPT !.components[c].ports[Len(x.components[c].ports)] = F(@)]
          [] site = "interface.interface_type" ->
              IF i = 0 THEN x ELSE [x EXCEPT !.interfaces[i] = F(@)]
          [] site = "data_element.base_type" ->
              IF i = 0 \/ Len(x.interfaces[i].data_elements) = 0 THEN x
              ELSE [x EXCEPT !.interfaces[i].data_elements[Len(x.interfaces[i].data_elements)] = F(@)]
          [] site = "operation.return_base_type" ->
              IF i = 0 \/ Len(x.interfaces[i].operations) = 0 THEN x
              ELSE [x EXCEPT !.interfaces[i].operations[Len(x.interfaces[i].operations)] = F(@)]
          [] site \in {"argument.direction", "argument.base_type"} ->
              IF i = 0 \/ \A k \in 1..Len(x.interfaces[i].operations) :
                             Len(x.interfaces[i].operations[k].arguments) = 0
              THEN x
              ELSE LET o == CHOOSE k \in 1..Len(x.interfaces[i].operations) :
                               /\ Len(x.interfaces[i].operations[k].arguments) > 0
                               /\ \A j \in 1..(k - 1) :
                                     Len(x.interfaces[i].operations[j].arguments) = 0
                       args == x.interfaces[i].operations[o].arguments
                   IN  [x EXCEPT !.interfaces[i].operations[o].arguments[Len(args)] = F(@)]
          [] site = "application_data_type.category" ->
              IF a = 0 THEN x ELSE [x EXCEPT !.application_data_types[a] = F(@)]
          [] site = "implementation_data_type.base_type" ->
              IF t = 0 THEN x ELSE [x EXCEPT !.implementation_data_types[t] = F(@)]

\* What a document may hold for an enum-valued field: the tag of a member,
\* nothing, or a tag that no member has.
TagKinds == {"member", "absent", "unknown"}

Tagged(data, key, kind) ==
    CASE kind = "member" -> data
      [] kind = "absent" -> [k \in DOMAIN data \ {key} |-> data[k]]
      [] kind = "unknown" -> [data EXCEPT ![key] = "bogus"]

\* The document of a Project with the field of the site changed.
DocumentAt(p, site, kind) ==
    LET F(data) == Tagged(data, EnumField(site), kind)
    IN  AtSite(Project_to_dict(p), site, F)

ProjectFile == "/proj/project.yaml"

InitDec ==
    /\ \E order \in Orders(RTComponents) : project = RTProject(order, order, order)
    /\ \E site \in EnumSites : \E kind \in TagKinds :
          /\ call = [op |-> "__init__", site |-> site, kind |-> kind]
          /\ files = [f \in {ProjectFile} |-> Document(DocumentAt(project, site, kind))]
    /\ ret = <<>>
    /\ edits = 0
    /\ mfp = <<>>
    /\ calls = 0

\* load_project(filepath)
LoadProject ==
    /\ call.op = "__init__"
    /\ ret' = load_project(files, ProjectFile)
    /\ call' = [call EXCEPT !.op = "load_project"]
    /\ UNCHANGED <<project, edits, mfp, files, calls>>

NextDec == LoadProject

SpecDec == InitDec /\ [][NextDec]_vars

\* The documented default of each enum-valued field.
EnumDefault(site) ==
    CASE site = "port.direction" -> "REQUIRED"
      [] site = "interface.interface_type" -> "SENDER_RECEIVER"
      [] site = "argument.direction" -> "IN"
      [] site = "application_data_type.category" -> "VALUE"
      [] OTHER -> "UINT8"

\* C12: a document in which an enum-valued field (port direction, interface
\* type, base type, application category, argument direction) carries a tag
\* outside the enum's set fails to load and yields no Project; when the
\* field is absent the load succeeds with the documented default in its
\* place and everything else as written.
C12_UnknownTagFailsAbsentDefaults ==
    call.op = "load_project" =>
        LET there == DocumentAt(project, call.site, "unknown") # Project_to_dict(project)
            default(entity) == [entity EXCEPT ![EnumField(call.site)] = EnumDefault(call.site)]
        IN  CASE call.kind = "unknown" /\ there -> ret.raised /\ ret.project = <<>>
              [] call.kind = "absent" ->
                    ~ ret.raised /\ ret.project = <<AtSite(project, call.site, default)>>
              [] OTHER -> ~ ret.raised /\ ret.project = <<project>>

\* A document of two interfaces, the base type of an operation argument of
\* the second one unknown, was loaded and the load failed.
C12_Witness ==
    /\ call.op = "load_project" /\ call.kind = "unknown"
    /\ call.site = "argument.base_type"
    /\ Len(project.interfaces) = 2
    /\ files[ProjectFile].data # Project_to_dict(project)
    /\ ret.raised

(***************************************************************************)
(* The code generator (src/codegen/generator.py).  The output directory is *)
(* a function from file names to texts.  The templates are not part of the *)
(* sources at hand: a rendered text is modelled as the record of what the  *)
(* template is given, with the c_type filter applied to the base types of  *)
(* the shared aggregate-types file.                                        *)
(* port.interface, the attribute that the pre-pass sets on a Port, is the  *)
(* field interface of the port's record: <<>> for None, <<iface>> for an   *)
(* Interface; a Port that never went through the pre-pass has no such      *)
(* field.                                                                  *)
(***************************************************************************)
C_TYPE_MAP ==
    [uint8 |-> "uint8", uint16 |-> "uint16", uint32 |-> "uint32",
     int8 |-> "int8", int16 |-> "int16", int32 |-> "int32",
     float32 |-> "float32", float64 |-> "float64", boolean |-> "boolean"]

\* A faulty filter that hands an unknown tag through; C17 tells it from
\* c_type_filter.
c_type_filter_passing(data_type) ==
    IF data_type \in DOMAIN C_TYPE_MAP THEN C_TYPE_MAP[data_type] ELSE data_type

\* C_TYPE_MAP.get(data_type, "uint8")
c_type_filter(data_type) ==
    IF data_type \in DOMAIN C_TYPE_MAP THEN C_TYPE_MAP[data_type] ELSE "uint8"

\* if port.interface_uid: the UID is neither None nor the empty string
HasInterfaceUid(port) == port.interface_uid # None

\* setattr(port, "interface", value)
SetInterface(port, value) == [interface |-> value] @@ port

_resolve_port_interfaces(swc, self) ==
    [swc EXCEPT !.ports = [i \in 1..Len(swc.ports) |->
        IF HasInterfaceUid(swc.ports[i])
        THEN SetInterface(swc.ports[i], get_interface_by_uid(self, swc.ports[i].interface_uid))
        ELSE SetInterface(swc.ports[i], <<>>)]]

\* template.render(swc=swc) of the three component templates
render_swc(template, swc) == [template |-> template, swc |-> swc]

\* template.render() of std_types.h.j2
render_std_types == [template |-> "std_types.h.j2"]

\* template.render(interfaces=project.interfaces) of rte_type.h.j2
render_rte_type(interfaces) ==
    LET argument(a) ==
            [name |-> a.name, direction |-> ArgumentDirection[a.direction],
             type |-> c_type_filter(BaseDataType[a.base_type])]
        operation(op) ==
            [name |-> op.name, type |-> c_type_filter(BaseDataType[op.return_base_type]),
             arguments |-> [i \in 1..Len(op.arguments) |-> argument(op.arguments[i])]]
        element(de) ==
            [name |-> de.name, type |-> c_type_filter(BaseDataType[de.base_type]),
             init_value |-> de.init_value]
    IN  [template |-> "rte_type.h.j2",
         interfaces |-> [i \in 1..Len(interfaces) |->
             [name |-> interfaces[i].name,
              interface_type |-> InterfaceType[interfaces[i].interface_type],
              data_elements |-> [j \in 1..Len(interfaces[i].data_elements) |->
                                    element(interfaces[i].data_elements[j])],
              operations |-> [j \in 1..Len(interfaces[i].operations) |->
                                 operation(interfaces[i].operations[j])]]]]

\* A faulty order, the source stub before the header; C13 tells it from
\* the order of generate_all.
OutputFilesSourceFirst(self) ==
    <<[name |-> "Std_Types.h", template |-> "std_types.h.j2", swc |-> 0],
      [name |-> "Rte_Type.h", template |-> "rte_type.h.j2", swc |-> 0]>>
    \o [k \in 1..(3 * Len(self.components)) |->
          LET c == (k + 2) \div 3
              swc == self.components[c]
          IN  CASE k % 3 = 2 -> [name |-> swc.name \o ".h",
                                  template |-> "swc_header.h.j2", swc |-> c]
                [] k % 3 = 1 -> [name |-> swc.name \o ".c",
                                  template |-> "swc_source.c.j2", swc |-> c]
                [] OTHER -> [name |-> "Rte_" \o swc.name \o ".h",
                             template |-> "rte_header.h.j2", swc |-> c]]

\* The files of generate_all in the order of its statements: the file
\* name, the template, and the component (0 for the two common headers).
OutputFiles(self) ==
    <<[name |-> "Std_Types.h", template |-> "std_types.h.j2", swc |-> 0],
      [name |-> "Rte_Type.h", template |-> "rte_type.h.j2", swc |-> 0]>>
    \o [k \in 1..(3 * Len(self.components)) |->
          LET c == (k + 2) \div 3
              swc == self.components[c]
          IN  CASE k % 3 = 1 -> [name |-> swc.name \o ".h",
                                  template |-> "swc_header.h.j2", swc |-> c]
                [] k % 3 = 2 -> [name |-> swc.name \o ".c",
                                  template |-> "swc_source.c.j2", swc |-> c]
                [] OTHER -> [name |-> "Rte_" \o swc.name \o ".h",
                             template |-> "rte_header.h.j2", swc |-> c]]

\* A faulty write that appends to a file that is there; C14 tells it from
\* write_text.
write_text_appending(fs, name, text) ==
    [f \in DOMAIN fs \cup {name} |->
        IF f # name THEN fs[f]
        ELSE IF name \in DOMAIN fs THEN [head |-> fs[name], tail |-> text] ELSE text]

\* Path.write_text: the file is created or overwritten.
write_text(fs, name, text) ==
    [f \in DOMAIN fs \cup {name} |-> IF f = name THEN text ELSE fs[f]]

\* generate_all from its k-th write on.  The text is rendered, and for a
\* component file the pre-pass run, before the file is written; the
\* fail_at-th write raises IOError (none does when fail_at is 0).
RECURSIVE WriteFrom(_, _, _, _, _, _)
WriteFrom(self, fs, outputs, k, fail_at, generated_files) ==
    IF k > Len(outputs)
    THEN [self |-> self, fs |-> fs, raised |-> FALSE, generated_files |-> generated_files]
    ELSE
    LET out == outputs[k]
        resolved == IF out.swc = 0 THEN self
                    ELSE [self EXCEPT !.components[out.swc] =
                             _resolve_port_interfaces(@, self)]
        text == CASE out.template = "std_types.h.j2" -> render_std_types
                  [] out.template = "rte_type.h.j2" -> render_rte_type(self.interfaces)
                  [] OTHER -> render_swc(out.template, resolved.components[out.swc])
    IN  IF k = fail_at
        THEN [self |-> resolved, fs |-> fs, raised |-> TRUE,
              generated_files |-> generated_files]
        ELSE WriteFrom(resolved, write_text(fs, out.name, text), outputs, k + 1, fail_at,
                       Append(generated_files, out.name))

\* CodeGenerator.generate_all(project, output_dir)
generate_all(self, fs, fail_at) == WriteFrom(self, fs, OutputFiles(self), 1, fail_at, <<>>)

(***************************************************************************)
(* Generation as the main window runs it, on Projects of the two           *)
(* components and the two interfaces above, between renaming a component   *)
(* and deleting an interface.  A write of generate_all may fail.           *)
(***************************************************************************)
InitGen ==
    /\ \E components \in Orders(RTComponents) :
       \E interfaces \in {<<>>, <<1, 2>>} :
          project = RTProject(<<1, 2>>, interfaces, components)
    /\ files = <<>>
    /\ call = [op |-> "__init__"]
    /\ ret = <<>>
    /\ edits = 0
    /\ mfp = <<>>
    /\ calls = 0

\* generate_project_code(self.project, output_dir); the fail_at-th write
\* raises.  The caller gets the list of paths, or the exception of the
\* write with the name of the file that could not be written.
GenerateAll(fail_at) ==
    /\ edits < MaxEdits
    /\ LET r == generate_all(project, files, fail_at)
       IN  /\ project' = r.self
           /\ files' = r.fs
           /\ ret' = IF r.raised
                     THEN [exception |-> "OSError",
                           filename |-> OutputFiles(project)[fail_at].name]
                     ELSE r.generated_files
           /\ call' = [op |-> "generate_all", raised |-> r.raised,
                       written |-> r.generated_files]
    /\ edits' = edits + 1
    /\ UNCHANGED <<mfp, calls>>

\* The texts typed into the name field of a component: a name that nothing
\* has, the name of the other component, and the stem of a common header.
NameTexts == {"Renamed", "Sink", "Std_Types"}

\* SwcEditor._on_name_changed; the call keeps the position of the component
\* and the name it had.
OnSwcNameChanged(c, text) ==
    /\ edits < MaxEdits
    /\ project.components[c].name # text
    /\ project' = [project EXCEPT !.components[c].name = text]
    /\ call' = [op |-> "_on_name_changed", swc |-> c, name |-> project.components[c].name]
    /\ ret' = <<>>
    /\ edits' = edits + 1
    /\ UNCHANGED <<mfp, files, calls>>

NextGen ==
    \/ \E fail_at \in 0..Len(OutputFiles(project)) : GenerateAll(fail_at)
    \/ \E c \in 1..Len(project.components) : \E text \in NameTexts : OnSwcNameChanged(c, text)
    \/ \E i \in 1..Len(project.interfaces) : DeleteInterface(i)

SpecGen == InitGen /\ [][NextGen]_vars

\* The file names of a Project's components as the spec gives them.
NamesOf(swc) == <<swc.name \o ".h", swc.name \o ".c", "Rte_" \o swc.name \o ".h">>

RECURSIVE ComponentFileNames(_, _)
ComponentFileNames(components, c) ==
    IF c > Len(components) THEN <<>>
    ELSE NamesOf(components[c]) \o ComponentFileNames(components, c + 1)

\* C13: generate_all writes Std_Types.h, Rte_Type.h and then, for each
\* component in Project list order, <Name>.h, <Name>.c and Rte_<Name>.h, in
\* this order, and returns these paths in this order: 2 + 3 * n entries for
\* n components.
C13_OutputOrder ==
    call.op = "generate_all" /\ ~ call.raised =>
        /\ ret = <<"Std_Types.h", "Rte_Type.h">> \o ComponentFileNames(project.components, 1)
        /\ Len(ret) = 2 + 3 * Len(project.components)
        /\ call.written = ret
        /\ Range(ret) \subseteq DOMAIN files

\* Two different components were generated.
C13_Witness ==
    /\ call.op = "generate_all" /\ ~ call.raised
    /\ Len(project.components) = 2
    /\ project.components[1].name # project.components[2].name
    /\ Len(ret) = 8

\* C14: generation is deterministic.  generate_all run twice on the same
\* Project, nothing done to the Project in between, gives the same file
\* names with the same contents and returns the same list of paths.
C14_Deterministic ==
    [][(/\ call.op = "generate_all" /\ ~ call.raised
        /\ call'.op = "generate_all" /\ ~ call'.raised)
          => files' = files /\ ret' = ret]_vars

\* A second run followed a first one on a Project of two components whose
\* ports have an interface to resolve and none.
C14_Witness ==
    /\ call.op = "generate_all" /\ ~ call.raised
    /\ edits = 2
    /\ Len(project.components) = 2
    /\ Len(project.interfaces) = 2
    /\ \A f \in {"Sensor.h", "Sink.c", "Rte_Type.h"} : f \in DOMAIN files
    /\ \E p \in Range(project.components[1].ports) : p.interface # <<>>
    /\ \E p \in Range(project.components[1].ports) : p.interface = <<>>

\* C15: when a write of generate_all fails with an IOError, the writes
\* after it are not performed and the caller is told which files had been
\* written before the failure.
C15_FailedWriteReported ==
    [][call'.op = "generate_all" /\ call'.raised =>
          /\ DOMAIN files' \subseteq DOMAIN files \cup Range(call'.written)
          /\ \A f \in DOMAIN files \ Range(call'.written) : files'[f] = files[f]
          /\ "written" \in DOMAIN ret'
          /\ ret'.written = call'.written]_vars

\* C20: generation is read-only with respect to the Project.  After
\* generate_all, the pre-pass over the ports included, every entity list
\* and every entity of the Project is as it was before the call.
C20_GenerationReadOnly ==
    [][call'.op = "generate_all" => project' = project]_vars

(***************************************************************************)
(* The lookups that are pure functions, on bounded inputs: the             *)
(* implementation type of an application type, on Projects whose mappings  *)
(* are any list of at most MaxLen of the four below over any list of the   *)
(* two implementation types, and the type table of the generator, on the   *)
(* eleven base-type tags and tags that are none.                           *)
(***************************************************************************)
get_impl_type_by_uid(self, uid) == FirstByUid(self.implementation_data_types, uid, 1)

\* A faulty lookup that goes on to the next mapping when the first one does
\* not resolve; C18 tells it from get_impl_type_for_app_type.
RECURSIVE FirstResolvingMapping(_, _, _)
FirstResolvingMapping(self, app_type_uid, i) ==
    IF i > Len(self.data_type_mappings) THEN <<>>
    ELSE IF /\ self.data_type_mappings[i].app_type_uid = app_type_uid
            /\ get_impl_type_by_uid(self, self.data_type_mappings[i].impl_type_uid) # <<>>
         THEN get_impl_type_by_uid(self, self.data_type_mappings[i].impl_type_uid)
         ELSE FirstResolvingMapping(self, app_type_uid, i + 1)

\* The loop of get_impl_type_for_app_type from the i-th mapping on.
RECURSIVE FirstMapping(_, _, _)
FirstMapping(self, app_type_uid, i) ==
    IF i > Len(self.data_type_mappings) THEN <<>>
    ELSE IF self.data_type_mappings[i].app_type_uid = app_type_uid
         THEN get_impl_type_by_uid(self, self.data_type_mappings[i].impl_type_uid)
         ELSE FirstMapping(self, app_type_uid, i + 1)

get_impl_type_for_app_type_resolving(self, app_type_uid) ==
    FirstResolvingMapping(self, app_type_uid, 1)

get_impl_type_for_app_type(self, app_type_uid) == FirstMapping(self, app_type_uid, 1)

\* Three mappings of application type 72, to the two implementation types
\* and to one that no Project has, and a mapping of application type 73.
LookupMappings ==
    <<[app_type_uid |-> 72, impl_type_uid |-> 74, uid |-> 76],
      [app_type_uid |-> 72, impl_type_uid |-> 75, uid |-> 77],
      [app_type_uid |-> 72, impl_type_uid |-> AbsentUid, uid |-> 78],
      [app_type_uid |-> 73, impl_type_uid |-> 75, uid |-> 79]>>

\* The tags handed to the type table: those of BaseDataType, and two that
\* are no base type.
TypeTags == {BaseDataType[m] : m \in DOMAIN BaseDataType} \cup {"uint128", ""}

InitLookup ==
    /\ \E mappings \in Orders(LookupMappings) :
       \E types \in Orders(RTImplementationDataTypes) :
          project = [RTProject(<<>>, <<>>, <<>>) EXCEPT
                        !.application_data_types = RTApplicationDataTypes,
                        !.implementation_data_types = Pick(RTImplementationDataTypes, types),
                        !.data_type_mappings = Pick(LookupMappings, mappings)]
    /\ call = [op |-> "__init__"]
    /\ ret = <<>>
    /\ edits = 0
    /\ mfp = <<>>
    /\ files = <<>>
    /\ calls = 0

GetImplTypeForAppType(app_type_uid) ==
    /\ call.op = "__init__"
    /\ ret' = get_impl_type_for_app_type(project, app_type_uid)
    /\ call' = [op |-> "get_impl_type_for_app_type", app_type_uid |-> app_type_uid]
    /\ UNCHANGED <<project, edits, mfp, files, calls>>

CTypeFilter(data_type) ==
    /\ call.op = "__init__"
    /\ ret' = c_type_filter(data_type)
    /\ call' = [op |-> "c_type_filter", data_type |-> data_type]
    /\ UNCHANGED <<project, edits, mfp, files, calls>>

NextLookup ==
    \/ \E adt \in Range(project.application_data_types) : GetImplTypeForAppType(adt.uid)
    \/ \E data_type \in TypeTags : CTypeFilter(data_type)

SpecLookup == InitLookup /\ [][NextLookup]_vars

\* C16: the type table maps the eleven base types one-to-one to target
\* type names: each base type has its own entry, and no two base types get
\* the same target name.
C16_TypeTableOneToOne ==
    call.op = "c_type_filter" /\ IsTag(BaseDataType, call.data_type) =>
        /\ call.data_type \in DOMAIN C_TYPE_MAP
        /\ \A m \in DOMAIN BaseDataType :
              BaseDataType[m] # call.data_type => c_type_filter(BaseDataType[m]) # ret

\* C17: for every tag that is not in the type table the type mapping
\* returns uint8, and it never raises.
C17_UnknownTagFallsBack ==
    call.op = "c_type_filter" /\ call.data_type \notin DOMAIN C_TYPE_MAP => ret = "uint8"

\* The filter was given the tag of a base type that the table lacks.
C17_Witness ==
    call.op = "c_type_filter" /\ call.data_type = "uint64" /\ ret = "uint8"

\* C18: first match wins.  get_impl_type_for_app_type(a) resolves the
\* impl_type_uid of the first mapping in list order whose app_type_uid is
\* a, later mappings of a are not consulted, and the result is nothing when
\* no mapping is for a.
C18_FirstMatchWins ==
    call.op = "get_impl_type_for_app_type" =>
        LET mappings == project.data_type_mappings
            types == project.implementation_data_types
            matches == {i \in 1..Len(mappings) : mappings[i].app_type_uid = call.app_type_uid}
            first == CHOOSE i \in matches : \A j \in matches : i <= j
            resolving == {t \in 1..Len(types) : types[t].uid = mappings[first].impl_type_uid}
        IN  IF matches = {} THEN ret = <<>>
            ELSE IF resolving = {} THEN ret = <<>>
            ELSE ret = <<types[CHOOSE t \in resolving : \A u \in resolving : t <= u]>>

\* The first mapping of the application type does not resolve and a later
\* one would: the lookup returned nothing.
C18_Witness ==
    /\ call.op = "get_impl_type_for_app_type" /\ call.app_type_uid = 72
    /\ Len(project.data_type_mappings) = 2
    /\ project.data_type_mappings[1].impl_type_uid = AbsentUid
    /\ get_impl_type_by_uid(project, project.data_type_mappings[2].impl_type_uid) # <<>>
    /\ ret = <<>>


\* The output directory after generate_all on a Project, run in a directory
\* that holds fs.
Generated(self, fs) == generate_all(self, fs, 0).fs

\* The Project before the rename that call records.
BeforeRename == [project EXCEPT !.components[call.swc].name = call.name]

\* C21: renaming one component, everything else in the Project unchanged,
\* changes only that component's three output files and its entry in the
\* shared aggregate-types file.  Std_Types.h and the three files of every
\* other component have the same names and the same contents when the
\* Project is generated before the rename and again after it, whatever the
\* new name is.
C21_RenameChangesOnlyOwnFiles ==
    call.op = "_on_name_changed" =>
        LET before == Generated(BeforeRename, <<>>)
            after == Generated(project, before)
            kept == {"Std_Types.h"} \cup
                    UNION {Range(NamesOf(BeforeRename.components[d])) :
                             d \in (1..Len(project.components)) \ {call.swc}}
        IN  \A f \in kept : f \in DOMAIN after /\ after[f] = before[f]

(***************************************************************************)
(* Ownership and lookups by UID over two loaded modules.  Module ma        *)
(* declares the data types, an interface and components; module mb         *)
(* declares components, and at times an interface, drawn from the same     *)
(* pools, so that a UID can be declared twice: an entity of mb is told     *)
(* from the entity of ma with the same UID by its description.             *)
(***************************************************************************)
Shadowing(entities) == [i \in 1..Len(entities) |-> [entities[i] EXCEPT !.description = "mb"]]

ModuleMa(components) ==
    [name |-> "ma", description |-> "",
     compu_methods |-> RTCompuMethods,
     application_data_types |-> RTApplicationDataTypes,
     implementation_data_types |-> RTImplementationDataTypes,
     data_type_mappings |-> RTDataTypeMappings,
     interfaces |-> <<RTInterfaces[1]>>,
     components |-> Pick(RTComponents, components),
     connections |-> Pick(RTConnections, components)]

ModuleMb(interfaces, components) ==
    [Module("mb") EXCEPT !.interfaces = Shadowing(Pick(RTInterfaces, interfaces)),
                         !.components = Shadowing(Pick(RTComponents, components))]

\* MultiFileProject.find_element_module: the lists of a module that the
\* loop looks at, and the first module in the order of self.modules that
\* has the UID in one of them.
CheckedUids(module) ==
    {cm.uid : cm \in Range(module.compu_methods)}
    \cup {adt.uid : adt \in Range(module.application_data_types)}
    \cup {idt.uid : idt \in Range(module.implementation_data_types)}
    \cup {iface.uid : iface \in Range(module.interfaces)}
    \cup {swc.uid : swc \in Range(module.components)}
    \cup UNION {{port.uid : port \in Range(swc.ports)} : swc \in Range(module.components)}

find_element_module(self, uid) ==
    LET found == {i \in 1..Len(self.modules) : uid \in CheckedUids(self.modules[i].value)}
    IN  IF found = {} THEN <<>>
        ELSE <<self.modules[CHOOSE i \in found : \A j \in found : i <= j].value.name>>

\* The UIDs handed to the lookups: one of each kind of entity, one that
\* both modules may declare and one that nothing has.
LookupUids == {70, 72, 74, 76, 80, 87, 88, 90, 92, 94, AbsentUid}

OwnPaths == <<"/proj/a.yaml", "/proj/b.yaml">>

InitOwn ==
    /\ \E a \in Orders(RTComponents) : \E b \in Orders(RTComponents) :
       \E interfaces \in {<<>>, <<1>>} :
          files = [p \in Range(OwnPaths) |->
                     IF p = OwnPaths[1] THEN Document(Module_to_dict(ModuleMa(a)))
                     ELSE Document(Module_to_dict(ModuleMb(interfaces, b)))]
    /\ mfp = MultiFileProject
    /\ call = [op |-> "__init__"]
    /\ ret = <<>>
    /\ calls = 0
    /\ project = NewProject("New Project", "")
    /\ edits = 0

\* load_module on a file that is not loaded yet.
LoadOwnModule(module_path) ==
    /\ ~ DictHas(mfp.modules, module_path)
    /\ LoadModule(module_path, "")

\* The lookups are made on the manager as the two loads left it.
FindElementModule(uid) ==
    /\ call.op = "load_module" /\ Len(mfp.modules) = 2
    /\ ret' = find_element_module(mfp, uid)
    /\ call' = [op |-> "find_element_module", uid |-> uid]
    /\ UNCHANGED <<mfp, files, calls, project, edits>>

\* get_merged_project().get_component_by_uid(uid)
MergedComponentByUid(uid) ==
    /\ call.op = "load_module" /\ Len(mfp.modules) = 2
    /\ LET r == get_merged_project(mfp)
       IN  /\ mfp' = r.self
           /\ ret' = get_component_by_uid(r.merged, uid)
    /\ call' = [op |-> "get_component_by_uid", uid |-> uid]
    /\ UNCHANGED <<files, calls, project, edits>>

\* get_merged_project().get_interface_by_uid(uid)
MergedInterfaceByUid(uid) ==
    /\ call.op = "load_module" /\ Len(mfp.modules) = 2
    /\ LET r == get_merged_project(mfp)
       IN  /\ mfp' = r.self
           /\ ret' = get_interface_by_uid(r.merged, uid)
    /\ call' = [op |-> "get_interface_by_uid", uid |-> uid]
    /\ UNCHANGED <<files, calls, project, edits>>

NextOwn ==
    \/ \E module_path \in Range(OwnPaths) : LoadOwnModule(module_path)
    \/ \E uid \in LookupUids : FindElementModule(uid)
    \/ \E uid \in LookupUids : MergedComponentByUid(uid)
    \/ \E uid \in LookupUids : MergedInterfaceByUid(uid)

SpecOwn == InitOwn /\ [][NextOwn]_vars

\* The UIDs of the entities that the entity lists of a module declare.
DeclaredUids(module) ==
    CheckedUids(module)
    \cup {m.uid : m \in Range(module.data_type_mappings)}
    \cup UNION {{r.uid : r \in Range(swc.runnables)} : swc \in Range(module.components)}
    \cup {conn.uid : conn \in Range(module.connections)}

Owners(self, uid) ==
    {module.name : module \in {m \in Range(DictValues(self.modules)) : uid \in DeclaredUids(m)}}

\* C22: ownership by origin.  For the UID of an entity that the entity
\* lists of a loaded module declare (compu-methods, application types,
\* implementation types, type mappings, interfaces, components with their
\* ports and runnables, connections) find_element_module returns the name
\* of a module that declares it, and nothing for a UID that no loaded
\* module declares.
C22_OwnershipByOrigin ==
    call.op = "find_element_module" =>
        IF Owners(mfp, call.uid) = {} THEN ret = <<>>
        ELSE ret # <<>> /\ ret[1] \in Owners(mfp, call.uid)

\* The entities that a lookup on the merged view searches, module by
\* module in the order of self.modules.
Searched(module) ==
    IF call.op = "get_component_by_uid" THEN module.components ELSE module.interfaces

Declares(module, uid) == \E e \in Range(Searched(module)) : e.uid = uid

MergedLookup == call.op \in {"get_component_by_uid", "get_interface_by_uid"}

\* Both modules declare an entity of the kind looked up with the UID
\* looked up, and the merge kept both.
DeclaredTwice ==
    /\ MergedLookup
    /\ Declares(mfp.modules[1].value, call.uid)
    /\ Declares(mfp.modules[2].value, call.uid)

KeepsBoth ==
    LET merged == mfp._merged[1]
        m1 == mfp.modules[1].value
        m2 == mfp.modules[2].value
    IN  /\ merged.components = m1.components \o m2.components
        /\ merged.interfaces = m1.interfaces \o m2.interfaces

\* C26 as the spec has it: when two loaded modules declare an entity of the
\* same kind with the same UID, the merge keeps both and a UID lookup on
\* the merged project returns the entity of the later module in
\* module-list order.
C26_LastWriterShadows ==
    DeclaredTwice =>
        /\ KeepsBoth
        /\ ret # <<>> /\ ret[1] \in Range(Searched(mfp.modules[2].value))

\* C26 as the code has it: the merge keeps both, and a UID lookup on the
\* merged project returns the entity of the earlier module in module-list
\* order, the first in the concatenated list; the entity of the later
\* module is the one that is shadowed.
C26_FirstWriterShadows ==
    DeclaredTwice =>
        /\ KeepsBoth
        /\ ret # <<>> /\ ret[1].uid = call.uid
        /\ ret[1] \in Range(Searched(mfp.modules[1].value))
        /\ ret[1] \notin Range(Searched(mfp.modules[2].value))

\* Component Sensor is declared by mb, loaded first, and by ma; the lookup
\* returned the one of mb.
C26_Witness ==
    /\ DeclaredTwice
    /\ call.op = "get_component_by_uid" /\ call.uid = 90
    /\ mfp.modules[1].value.name = "mb"
    /\ ret[1].description = "mb"

RECURSIVE Concat(_, _)
Concat(lists, i) == IF i > Len(lists) THEN <<>> ELSE lists[i] \o Concat(lists, i + 1)

UidsOf(entities) == [i \in 1..Len(entities) |-> entities[i].uid]

\* The UIDs of all entities that a module or a Project holds, one entry
\* for each entity.
EntityUids(self) ==
    LET members(iface) ==
            UidsOf(iface.data_elements) \o UidsOf(iface.operations)
            \o Concat([k \in 1..Len(iface.operations) |-> UidsOf(iface.operations[k].arguments)], 1)
        parts(swc) == UidsOf(swc.ports) \o UidsOf(swc.runnables)
    IN  UidsOf(self.compu_methods) \o UidsOf(self.application_data_types)
        \o UidsOf(self.implementation_data_types) \o UidsOf(self.data_type_mappings)
        \o UidsOf(self.interfaces)
        \o Concat([i \in 1..Len(self.interfaces) |-> members(self.interfaces[i])], 1)
        \o UidsOf(self.components)
        \o Concat([i \in 1..Len(self.components) |-> parts(self.components[i])], 1)
        \o UidsOf(self.connections)

NoRepeats(list) == \A i, j \in 1..Len(list) : list[i] = list[j] => i = j

\* How many entries of a list are u.
Count(list, u) == Cardinality({i \in 1..Len(list) : list[i] = u})

\* C23: UIDs are process-unique and immutable.  In every state reached by
\* loads of documents no two entities that the manager holds carry the
\* same UID, and the merge hands out every entity with the UID it has in
\* its module.
C23_UidsUniqueAndImmutable ==
    LET held == Concat([i \in 1..Len(mfp.modules) |-> EntityUids(mfp.modules[i].value)], 1)
    IN  /\ NoRepeats(held)
        /\ mfp._merged # <<>> =>
              \A u \in Range(held) : Count(EntityUids(mfp._merged[1]), u) = Count(held, u)

(***************************************************************************)
(* Editing the members of an interface in the main window: the context     *)
(* menu of an interface item offers "Add Data Element" on a               *)
(* sender/receiver interface and "Add Operation" on any other, the tree    *)
(* shows, and so lets delete, the data elements of a sender/receiver       *)
(* interface and the operations of any other, and the interface editor     *)
(* sets the kind.                                                          *)
(***************************************************************************)
MaxIfaceEdits == 5

DataElement(name, uid) ==
    [name |-> name, app_type_uid |-> None, base_type |-> "UINT8", init_value |-> "0",
     description |-> "", uid |-> uid]

Operation(name, uid) ==
    [name |-> name, return_type_uid |-> None, return_base_type |-> "UINT8",
     arguments |-> <<>>, description |-> "", uid |-> uid]

\* uuid.uuid4 for a member of an interface: the least UID above those of
\* the other entities that no member carries.
FreshMemberUid(self) ==
    LET used == UNION {{m.uid : m \in Range(iface.data_elements) \cup Range(iface.operations)} :
                          iface \in Range(self.interfaces)}
        free == ((MaxUid + 1)..(MaxUid + MaxIfaceEdits)) \ used
    IN  CHOOSE u \in free : \A v \in free : u <= v

\* MainWindow._add_data_element on the tree item of interface i
AddDataElement(i) ==
    /\ edits < MaxIfaceEdits
    /\ project.interfaces[i].interface_type = "SENDER_RECEIVER"
    /\ LET name == "DataElement_" \o ToString(Len(project.interfaces[i].data_elements) + 1)
       IN  project' = [project EXCEPT !.interfaces[i].data_elements =
                          Append(@, DataElement(name, FreshMemberUid(project)))]
    /\ call' = [op |-> "_add_data_element"]
    /\ ret' = <<>>
    /\ edits' = edits + 1
    /\ UNCHANGED <<mfp, files, calls>>

\* MainWindow._add_operation on the tree item of interface i
AddOperation(i) ==
    /\ edits < MaxIfaceEdits
    /\ project.interfaces[i].interface_type # "SENDER_RECEIVER"
    /\ LET name == "Operation_" \o ToString(Len(project.interfaces[i].operations) + 1)
       IN  project' = [project EXCEPT !.interfaces[i].operations =
                          Append(@, Operation(name, FreshMemberUid(project)))]
    /\ call' = [op |-> "_add_operation"]
    /\ ret' = <<>>
    /\ edits' = edits + 1
    /\ UNCHANGED <<mfp, files, calls>>

\* InterfaceEditor._on_type_changed: the combo box holds the two kinds and
\* signals a change of its index.
OnTypeChanged(i, interface_type) ==
    /\ edits < MaxIfaceEdits
    /\ project.interfaces[i].interface_type # interface_type
    /\ project' = [project EXCEPT !.interfaces[i].interface_type = interface_type]
    /\ call' = [op |-> "_on_type_changed"]
    /\ ret' = <<>>
    /\ edits' = edits + 1
    /\ UNCHANGED <<mfp, files, calls>>

\* MainWindow._delete_item on the item of the k-th data element of
\* interface i
DeleteDataElement(i, k) ==
    LET parent_iface == project.interfaces[i]
    IN  /\ edits < MaxIfaceEdits
        /\ parent_iface.interface_type = "SENDER_RECEIVER"
        /\ project' = [project EXCEPT !.interfaces[i].data_elements =
                          ListRemove(@, parent_iface.data_elements[k])]
        /\ call' = [op |-> "_delete_item", item_type |-> "data_element"]
        /\ ret' = <<>>
        /\ edits' = edits + 1
        /\ UNCHANGED <<mfp, files, calls>>

\* MainWindow._delete_item on the item of the k-th operation of interface i
DeleteOperation(i, k) ==
    LET parent_iface == project.interfaces[i]
    IN  /\ edits < MaxIfaceEdits
        /\ parent_iface.interface_type # "SENDER_RECEIVER"
        /\ project' = [project EXCEPT !.interfaces[i].operations =
                          ListRemove(@, parent_iface.operations[k])]
        /\ call' = [op |-> "_delete_item", item_type |-> "operation"]
        /\ ret' = <<>>
        /\ edits' = edits + 1
        /\ UNCHANGED <<mfp, files, calls>>

NextIface ==
    \/ AddInterface
    \/ \E i \in 1..Len(project.interfaces) : DeleteInterface(i)
    \/ \E i \in 1..Len(project.interfaces) : AddDataElement(i)
    \/ \E i \in 1..Len(project.interfaces) : AddOperation(i)
    \/ \E i \in 1..Len(project.interfaces) :
       \E interface_type \in DOMAIN InterfaceType : OnTypeChanged(i, interface_type)
    \/ \E i \in 1..Len(project.interfaces) :
       \E k \in 1..Len(project.interfaces[i].data_elements) : DeleteDataElement(i, k)
    \/ \E i \in 1..Len(project.interfaces) :
       \E k \in 1..Len(project.interfaces[i].operations) : DeleteOperation(i, k)

SpecIface == Init /\ [][NextIface]_vars

\* C24: in every state reached by adding interfaces, setting the kind of
\* an interface, adding data elements and operations and deleting, no
\* interface holds both kinds of members: never a non-empty list of data
\* elements and a non-empty list of operations at the same time.
C24_OneKindOfMembers ==
    \A iface \in Range(project.interfaces) :
        ~ (Len(iface.data_elements) > 0 /\ Len(iface.operations) > 0)

(***************************************************************************)
(* Data types in the main window.  A project with data types and type      *)
(* mappings comes from a document, where each mapping joins an application *)
(* type and an implementation type that the document holds; the tree lets  *)
(* delete an application type, an implementation type and a compu-method.   *)
(* No handler of the window adds or deletes a mapping.                     *)
(***************************************************************************)
TypeDocuments ==
    {Project_to_dict(RTProject(types, <<>>, <<>>)) : types \in Orders(RTCompuMethods)}

\* MainWindow._delete_item on the item of the k-th application type
DeleteAppDataType(k) ==
    LET obj == project.application_data_types[k]
    IN  /\ edits < MaxEdits
        /\ project' = [project EXCEPT !.application_data_types = ListRemove(@, obj)]
        /\ call' = [op |-> "_delete_item", item_type |-> "app_data_type", obj |-> obj]
        /\ ret' = <<>>
        /\ edits' = edits + 1
        /\ UNCHANGED <<mfp, files, calls>>

\* MainWindow._delete_item on the item of the k-th implementation type
DeleteImplDataType(k) ==
    LET obj == project.implementation_data_types[k]
    IN  /\ edits < MaxEdits
        /\ project' = [project EXCEPT !.implementation_data_types = ListRemove(@, obj)]
        /\ call' = [op |-> "_delete_item", item_type |-> "impl_data_type", obj |-> obj]
        /\ ret' = <<>>
        /\ edits' = edits + 1
        /\ UNCHANGED <<mfp, files, calls>>

\* MainWindow._delete_item on the item of the k-th compu-method
DeleteCompuMethod(k) ==
    LET obj == project.compu_methods[k]
    IN  /\ edits < MaxEdits
        /\ project' = [project EXCEPT !.compu_methods = ListRemove(@, obj)]
        /\ call' = [op |-> "_delete_item", item_type |-> "compu_method", obj |-> obj]
        /\ ret' = <<>>
        /\ edits' = edits + 1
        /\ UNCHANGED <<mfp, files, calls>>

NextTypes ==
    \/ \E data \in TypeDocuments : OpenProject(data)
    \/ \E k \in 1..Len(project.application_data_types) : DeleteAppDataType(k)
    \/ \E k \in 1..Len(project.implementation_data_types) : DeleteImplDataType(k)
    \/ \E k \in 1..Len(project.compu_methods) : DeleteCompuMethod(k)

SpecTypes == Init /\ [][NextTypes]_vars

get_app_type_by_uid(self, uid) == FirstByUid(self.application_data_types, uid, 1)

\* C25: in every state reached by loads and by deletes of application
\* types and implementation types, both UIDs of every DataTypeMapping of
\* the project resolve: app_type_uid names an application type of the
\* project and impl_type_uid names an implementation type of the project.
C25_MappingsResolve ==
    \A mapping \in Range(project.data_type_mappings) :
        /\ get_app_type_by_uid(project, mapping.app_type_uid) # <<>>
        /\ get_impl_type_by_uid(project, mapping.impl_type_uid) # <<>>
Next ==
    \/ NewProjectAction
    \/ \E data \in ProjectDocuments : OpenProject(data)
    \/ AddSwc
    \/ AddInterface
    \/ \E c \in 1..Len(project.components) : AddPort(c)
    \/ \E c \in 1..Len(project.components) :
       \E p \in 1..Len(project.components[c].ports) :
       \E direction \in DOMAIN PortDirection : OnDirChanged(c, p, direction)
    \/ \E c \in 1..Len(project.components) :
       \E p \in 1..Len(project.components[c].ports) :
       \E u \in {None} \cup {i.uid : i \in Range(project.interfaces)} :
          OnIfaceChanged(c, p, u)
    \/ \E c \in 1..Len(project.components) :
       \E p \in 1..Len(project.components[c].ports) : DeletePort(c, p)
    \/ AddConnection
    \/ \E c \in 1..Len(project.components) : DeleteSwc(c)
    \/ \E i \in 1..Len(project.interfaces) : DeleteInterface(i)
    \/ \E k \in 1..Len(project.connections) : DeleteConnection(k)
    \/ \E provider, requester \in Sides(project) : ValidateConnection(provider, requester)

Spec == Init /\ [][Next]_vars
====
